---- MODULE Spec2Model ----
(***************************************************************************)
(* Material-request poll pipeline of odooSpeak (src/OdooSpeakRequest.js):  *)
(* reconcile the polled batch against the DynamoDB table, translate the    *)
(* first classified item and post it to the Odoo ledger (stock.move and    *)
(* account.move), or rebuild and post its reversal.                        *)
(*                                                                         *)
(* Strings that the code parses (product display names, material codes)    *)
(* are sequences of one-character strings.  Identifiers assigned by the    *)
(* ledger are positions in the ledger tables (1, 2, ...); NoId is the      *)
(* falsy value the code reads for a missing id.                            *)
(***************************************************************************)
EXTENDS Integers, Sequences, FiniteSets, TLC

VARIABLES
    store,               \* DynamoDB table odooSpeakRequests: request_id -> record
    stockMove,           \* Odoo stock.move table, id = position
    accountMove,         \* Odoo account.move table, id = position
    pc,                  \* position of the running invocation of handler
    payloadRequest,      \* batch returned by getInfraspeakRequests
    existingItems,       \* scan taken at the start of checkAndUpsertRequests
    checkedWithDynamo,   \* classified items returned by checkAndUpsertRequests
    odooStock,           \* stock.quant snapshot of this invocation
    infraspeakData,      \* order detail fetched for the item
    processedWorkOrder,  \* accountingData handed to postToOdoo
    inventoryData,       \* inventory postings handed to postToOdoo
    inFlight,            \* stock.move creates issued and not yet settled
    rejected,            \* some stock.move create of Promise.all has failed
    responseInventory,   \* index of inventoryData -> id of the created stock.move
    responseAccounting,  \* id of the created account.move
    resultIds,           \* ids read by fetchOdooIdsFromDynamo for a reversal
    response,            \* status code returned by the invocation
    thrownAt,            \* position at which the error in the catch block was thrown
    failures,            \* number of remote and store calls that have failed so far
    webhookStore,        \* DynamoDB table odooSpeakWebhook: order_id -> posted_to_odoo
    webhookPc,           \* position of the running invocation of the work-order handler
    webhookOrder,        \* order detail fetched by the work-order handler
    webhookWorkOrder,    \* accountingData built by processWorkOrder of the work-order handler
    webhookAccounting,   \* id of the account.move created by the work-order handler
    webhookResponse,     \* status code returned by the work-order handler
    webhookThrownAt,     \* position at which the error in its catch block was thrown
    syncPc,              \* position of the running invocation of the stock-sync handler
    stockOdoo,           \* stock.quant rows read by the stock-sync handler
    productsOdoo,        \* products read by the stock-sync handler
    stockToPost,         \* rows built by processOdooData
    warehouseQtyInfraspeak, \* material quantities per warehouse of the field system
    syncPending,         \* rows whose callback of postStockToInfraspeak has not run yet
    postedResults,       \* row -> what its callback returned
    stockMovements,      \* stock movements created in the field system
    syncResponse,        \* status code returned by the stock-sync handler
    suspended,           \* locals of the other running invocation of the poll handler
    webhookSuspended,    \* locals of the other running invocation of the work-order handler
    createPc,            \* position of the running invocation of the product-creation handler
    ledgerTables,        \* product.product and product.category tables of the ledger
    createStock,         \* stockOdoo of the product-creation handler
    productsInfraspeak,  \* materials/all of the field system, folders included
    warehousesInfraspeak, \* real warehouses read by the product-creation handler
    unmatchedProductCodes, \* codes returned by matchProductsBetweenPlatforms
    productDetails,      \* details returned by getProductDetailsOdoo
    folderId,            \* id returned by createOrGetFolder
    createdMaterial,     \* id of the material returned by createMaterial
    fieldPosts,          \* POST requests the invocation has issued to the field system
    createResponse       \* status code returned by the product-creation handler

\* the variables of the work-order handler (src/OdooSpeakWorkOrder.js)
webhookVars == << webhookStore, webhookPc, webhookOrder, webhookWorkOrder,
                  webhookAccounting, webhookResponse, webhookThrownAt >>

\* the variables of the stock-sync handler (src/OdooSpeakStockSync.js)
syncVars == << syncPc, stockOdoo, productsOdoo, stockToPost, warehouseQtyInfraspeak, syncPending,
               postedResults, stockMovements, syncResponse >>

\* the variables of the poll handler alone (src/OdooSpeakRequest.js)
requestVars == << store, stockMove, pc, payloadRequest, existingItems,
                  checkedWithDynamo, odooStock, infraspeakData, processedWorkOrder,
                  inventoryData, inFlight, rejected, responseInventory,
                  responseAccounting, resultIds, response, thrownAt >>

\* the invocation that runs beside the one whose locals the variables above
\* hold: every invocation has its own execution environment, and the two
\* share the tables and the ledger only
suspendedVars == << suspended, webhookSuspended >>

\* the variables of the product-creation handler (src/unnamed/part_000)
createVars == << createPc, ledgerTables, createStock, productsInfraspeak,
                 warehousesInfraspeak, unmatchedProductCodes, productDetails,
                 folderId, createdMaterial, fieldPosts, createResponse >>

vars == << requestVars, accountMove, failures, webhookVars, syncVars, suspendedVars,
           createVars >>

----------------------------------------------------------------------------
(* Bounds and program constants *)

MaxAccountMoves == 2

MaxFailures == 1

MaxStockMoves == 2 * MaxAccountMoves

RequestIds == {1, 2}

Dates == {1, 2}

IncomingMoveRefs == { <<77>> }

NoId == 0

accountIdInventories == 482

locationDestId == 16

accountIdSalaries == 182

----------------------------------------------------------------------------
(* Small generic helpers *)

Range(s) == { s[i] : i \in DOMAIN s }

RECURSIVE SumSeq(_)
SumSeq(s) == IF s = <<>> THEN 0 ELSE Head(s) + SumSeq(Tail(s))

RECURSIVE Flatten(_)
Flatten(ss) == IF ss = <<>> THEN <<>> ELSE Head(ss) \o Flatten(Tail(ss))

RECURSIVE SortedSeq(_)
SortedSeq(S) ==
    IF S = {} THEN <<>>
    ELSE LET m == CHOOSE x \in S : \A y \in S : x <= y
         IN  <<m>> \o SortedSeq(S \ {m})

----------------------------------------------------------------------------
(* The state store *)

RelatedTo(requestId) == 100 + requestId

EmptyStore == [r \in {} |-> NoId]

\* getAllRequestsFromDynamo: the scan, as the list of persisted records.
\* The scan order is fixed by the keys; it is taken ascending here.
getAllRequestsFromDynamo(st) ==
    [i \in 1..Cardinality(DOMAIN st) |->
        [request_id |-> SortedSeq(DOMAIN st)[i]] @@ st[SortedSeq(DOMAIN st)[i]]]

insertRequestToDynamo(st, attributes) ==
    [r \in DOMAIN st \cup {attributes.request_id} |->
        IF r = attributes.request_id
        THEN [ related_to_id    |-> attributes.related_to_id,
               state            |-> "COMPLETED",
               date_updated     |-> attributes.date_updated,
               reversed         |-> FALSE,
               stock_move_ids   |-> <<>>,
               account_move_id  |-> NoId,
               cost_center_odoo |-> NoId ]
        ELSE st[r]]

\* updateRequestInDynamo that leaves date_updated out of its SET expression
updateRequestInDynamo_keepsDate(st, requestId, attributes) ==
    [st EXCEPT ![requestId] =
        [@ EXCEPT !.related_to_id = attributes.related_to_id,
                  !.state         = "COMPLETED",
                  !.reversed      = FALSE]]

updateRequestInDynamo(st, requestId, attributes) ==
    [st EXCEPT ![requestId] =
        [@ EXCEPT !.related_to_id = attributes.related_to_id,
                  !.state         = "COMPLETED",
                  !.date_updated  = attributes.date_updated,
                  !.reversed      = FALSE]]

\* markAsReversed that deletes the record instead of flagging it
markAsReversed_deletesRecord(st, requestId) ==
    [r \in DOMAIN st \ {requestId} |-> st[r]]

markAsReversed(st, requestId) ==
    [st EXCEPT ![requestId] = [@ EXCEPT !.reversed = TRUE]]

\* resetReversedFlag that writes reversed = true, as markAsReversed does
resetReversedFlag_writesTrue(st, requestId) ==
    [st EXCEPT ![requestId] = [@ EXCEPT !.reversed = TRUE]]

resetReversedFlag(st, requestId) ==
    [st EXCEPT ![requestId] = [@ EXCEPT !.reversed = FALSE]]

saveCostCenterToDynamo(st, requestId, costCenter) ==
    [st EXCEPT ![requestId] = [@ EXCEPT !.cost_center_odoo = costCenter]]

saveInventoryResponseToDynamo(st, requestId, inventoryResultIds, accountResultId) ==
    [st EXCEPT ![requestId] =
        [@ EXCEPT !.stock_move_ids  = inventoryResultIds,
                  !.account_move_id = accountResultId]]

----------------------------------------------------------------------------
(* checkAndUpsertRequests: every decision is taken against the scan        *)
(* `existing`; the store writes it issues form a list, applied in order.   *)

FindExisting(existing, requestId) ==
    LET hits == { i \in DOMAIN existing : existing[i].request_id = requestId }
    IN  IF hits = {} THEN 0 ELSE CHOOSE i \in hits : \A j \in hits : i <= j

\* RequestWrites that puts the whole item again where the code updates it
RequestWrites_putsOnUpdate(existing, request) ==
    LET k == FindExisting(existing, request.request_id)
    IN  IF k = 0 \/ existing[k].date_updated # request.date_updated
        THEN << [op |-> "insert", request_id |-> request.request_id, attributes |-> request] >>
        ELSE IF existing[k].reversed
        THEN << [op |-> "reset", request_id |-> request.request_id, attributes |-> request] >>
        ELSE <<>>

\* Store writes issued for one request of the payload.
RequestWrites(existing, request) ==
    LET k == FindExisting(existing, request.request_id)
    IN  IF k = 0
        THEN << [op |-> "insert", request_id |-> request.request_id, attributes |-> request] >>
        ELSE (IF existing[k].reversed
              THEN << [op |-> "reset", request_id |-> request.request_id, attributes |-> request] >>
              ELSE <<>>)
             \o
             (IF existing[k].date_updated # request.date_updated
              THEN << [op |-> "update", request_id |-> request.request_id, attributes |-> request] >>
              ELSE <<>>)

\* RequestResults that carries the incoming stock_move_ids on an update
RequestResults_incomingRefs(existing, request) ==
    LET k == FindExisting(existing, request.request_id)
    IN  IF k = 0
        THEN << [ request_id     |-> request.request_id,
                  related_to_id  |-> request.related_to_id,
                  stock_move_ids |-> <<>>,
                  state          |-> "COMPLETED",
                  upserted       |-> "INSERTED" ] >>
        ELSE IF existing[k].date_updated # request.date_updated
        THEN << [ request_id     |-> request.request_id,
                  related_to_id  |-> request.related_to_id,
                  stock_move_ids |-> request.stock_move_ids,
                  state          |-> "COMPLETED",
                  upserted       |-> "UPDATED" ] >>
        ELSE <<>>

\* Classified item pushed for one request of the payload.
RequestResults(existing, request) ==
    LET k == FindExisting(existing, request.request_id)
    IN  IF k = 0
        THEN << [ request_id     |-> request.request_id,
                  related_to_id  |-> request.related_to_id,
                  stock_move_ids |-> <<>>,
                  state          |-> "COMPLETED",
                  upserted       |-> "INSERTED" ] >>
        ELSE IF existing[k].date_updated # request.date_updated
        THEN << [ request_id     |-> request.request_id,
                  related_to_id  |-> request.related_to_id,
                  stock_move_ids |-> existing[k].stock_move_ids,
                  state          |-> "COMPLETED",
                  upserted       |-> "UPDATED" ] >>
        ELSE <<>>

\* IsRetracted without the test of the reversed flag
IsRetracted_ignoresFlag(payload, item) ==
    item.request_id \notin { payload[i].request_id : i \in DOMAIN payload }

IsRetracted(payload, item) ==
    /\ item.request_id \notin { payload[i].request_id : i \in DOMAIN payload }
    /\ ~item.reversed

ReversalWrites(payload, item) ==
    IF IsRetracted(payload, item)
    THEN << [op |-> "mark", request_id |-> item.request_id, attributes |-> item] >>
    ELSE <<>>

ReversalResults(payload, item) ==
    IF IsRetracted(payload, item)
    THEN << [ request_id     |-> item.request_id,
              related_to_id  |-> item.related_to_id,
              stock_move_ids |-> <<>>,
              state          |-> "REVERSED",
              upserted       |-> "undefined" ] >>
    ELSE <<>>

ReconcileWrites(existing, payload) ==
    Flatten([i \in DOMAIN payload |-> RequestWrites(existing, payload[i])])
    \o Flatten([i \in DOMAIN existing |-> ReversalWrites(payload, existing[i])])

\* ReconcileResults with the retraction loop ahead of the payload loop
ReconcileResults_reversalsFirst(existing, payload) ==
    Flatten([i \in DOMAIN existing |-> ReversalResults(payload, existing[i])])
    \o Flatten([i \in DOMAIN payload |-> RequestResults(existing, payload[i])])

ReconcileResults(existing, payload) ==
    Flatten([i \in DOMAIN payload |-> RequestResults(existing, payload[i])])
    \o Flatten([i \in DOMAIN existing |-> ReversalResults(payload, existing[i])])

ApplyWrite(st, w) ==
    CASE w.op = "insert" -> insertRequestToDynamo(st, w.attributes)
      [] w.op = "update" -> updateRequestInDynamo(st, w.request_id, w.attributes)
      [] w.op = "mark"   -> markAsReversed(st, w.request_id)
      [] w.op = "reset"  -> resetReversedFlag(st, w.request_id)

RECURSIVE ApplyWrites(_, _, _)
ApplyWrites(st, writes, n) ==
    IF n = 0 \/ writes = <<>> THEN st
    ELSE ApplyWrites(ApplyWrite(st, Head(writes)), Tail(writes), n - 1)

\* A complete run of checkAndUpsertRequests on store st.
Reconcile(st, payload) ==
    LET existing == getAllRequestsFromDynamo(st)
        writes   == ReconcileWrites(existing, payload)
    IN  [ store   |-> ApplyWrites(st, writes, Len(writes)),
          writes  |-> writes,
          results |-> ReconcileResults(existing, payload) ]

----------------------------------------------------------------------------
(* Batches the field system can return: distinct request ids, ascending *)

Request(r, d, refs) ==
    [ request_id |-> r, related_to_id |-> RelatedTo(r),
      date_updated |-> d, stock_move_ids |-> refs ]

RequestsOf(r) == { Request(r, d, refs) : d \in Dates, refs \in IncomingMoveRefs }

Batches ==
    UNION { { b \in [1..Cardinality(S) -> UNION { RequestsOf(r) : r \in S }] :
                \A i \in DOMAIN b : b[i].request_id = SortedSeq(S)[i] }
            : S \in SUBSET RequestIds }

----------------------------------------------------------------------------
(* Strings as sequences of characters, and the conversions the code uses *)

toUpperCase(s) ==
    [i \in DOMAIN s |->
        CASE s[i] = "a" -> "A"
          [] s[i] = "b" -> "B"
          [] s[i] = "w" -> "W"
          [] OTHER      -> s[i]]

RECURSIVE trimStart(_)
trimStart(s) ==
    IF s # <<>> /\ Head(s) = " " THEN trimStart(Tail(s)) ELSE s

RECURSIVE trimEnd(_)
trimEnd(s) ==
    IF s # <<>> /\ s[Len(s)] = " " THEN trimEnd(SubSeq(s, 1, Len(s) - 1)) ELSE s

trim(s) == trimEnd(trimStart(s))

\* match(/\[(.*?)\]/): the leftmost "[" that has a "]" after it, up to the
\* first such "]".  hit = FALSE is the null result of match.
BracketMatch(s) ==
    LET opens == { i \in DOMAIN s : s[i] = "[" /\ \E j \in DOMAIN s : j > i /\ s[j] = "]" }
    IN  IF opens = {} THEN [hit |-> FALSE, group |-> <<>>]
        ELSE LET i == CHOOSE x \in opens : \A y \in opens : x <= y
                 j == CHOOSE x \in DOMAIN s :
                        /\ x > i /\ s[x] = "]"
                        /\ \A y \in DOMAIN s : (y > i /\ s[y] = "]") => x <= y
             IN  [hit |-> TRUE, group |-> SubSeq(s, i + 1, j - 1)]

\* String(costCenterId) on the ids of the catalogue
toString(n) ==
    CASE n = 1 -> <<"1">>
      [] n = 2 -> <<"2">>
      [] n = 3 -> <<"3">>
      [] n = 4 -> <<"4">>
      [] OTHER -> <<"?">>

----------------------------------------------------------------------------
(* Reference data of the two remote systems *)

\* getCostCentersInfraspeak: id, name, code of every field-system cost center
CostCenters ==
    << [id |-> <<"1">>, name |-> "north", code |-> "CC1"],
       [id |-> <<"2">>, name |-> "south", code |-> "CC2"],
       [id |-> <<"3">>, name |-> "west", code |-> "CC3"] >>

\* getOdooAccounts: ledger accounts
OdooAccounts ==
    << [id |-> 701, code |-> "CC1"],
       [id |-> 702, code |-> "CC2"] >>

Quant(id, productId, displayName, locationId, quantity) ==
    [ id |-> id, product_id |-> <<productId, displayName>>,
      location_id |-> <<locationId, "WH/Stock">>, quantity |-> quantity ]

\* getOdooStockQuant: the snapshots the ledger may return
StockSnapshots ==
    { << Quant(11, 31, <<"w", " ", "[", "a", "]">>, 8, 4),
         Quant(12, 32, <<"[", "B", "]">>, 9, 2) >>,
      << Quant(11, 31, <<"w", " ", "[", "a", "]">>, 8, 1) >> }

Material(materialId, code, fullCode, meanPrice) ==
    [ type |-> "material", material_id |-> materialId, code |-> code,
      full_code |-> fullCode, quantity |-> 0, mean_price |-> meanPrice ]

Stock(materialId, quantity, meanPrice) ==
    [ type |-> "stock", material_id |-> materialId, code |-> <<>>,
      full_code |-> <<>>, quantity |-> quantity, mean_price |-> meanPrice ]

\* getInfraspeakData: order detail with its expanded stock and materials
OrderDetails(workOrderId) ==
    IF workOrderId = RelatedTo(1)
    THEN { [ cost_center_id |-> 1, cost_center_name |-> "north",
             included |-> << Material(41, <<"A">>, <<"F", ".", "A">>, 3),
                             Stock(41, 2, 3) >> ] }
    ELSE { [ cost_center_id |-> NoId, cost_center_name |-> "south",
             included |-> << Material(41, <<"A">>, <<"F", ".", "A">>, 4),
                             Material(42, <<"b", " ">>, <<"G", ".", "b">>, 5),
                             Stock(41, 1, 4),
                             Stock(42, 2, 5) >> ] }

\* Order details the field system can return for one order: at most
\* MaxMaterials material entries, with distinct material ids, followed by at
\* most MaxStockEntries stock entries of the materials of the order
\* (expanded=stock.material), under every cost-center id and name
MaxMaterials == 2

MaxStockEntries == 2

MaterialPool ==
    << Material(41, <<"A">>, <<"F", ".", "A">>, 3),
       Material(42, <<"b", " ">>, <<"G", ".", "b">>, 5),
       Material(43, <<"a">>, <<"F", ".", "a">>, 2),
       Material(NoId, <<"C">>, <<"F", ".", "C">>, 1),
       Material(44, <<>>, <<"F", ".", "D">>, 1),
       Material(45, <<"E">>, <<>>, 1) >>

StockPool ==
    { Stock(41, 2, 3), Stock(41, 1, 4), Stock(42, 3, 5), Stock(42, 5, 6), Stock(43, 3, 2) }

CostCenterIds == {NoId, 1, 3, 4}

CostCenterNames == {"", "south", "west", "east"}

MaterialEntries ==
    { [i \in 1..Cardinality(S) |-> MaterialPool[SortedSeq(S)[i]]] :
        S \in { T \in SUBSET DOMAIN MaterialPool : Cardinality(T) <= MaxMaterials } }

StockEntries(materials) ==
    LET ids == { materials[i].material_id : i \in DOMAIN materials } \ {NoId}
        pool == { e \in StockPool : e.material_id \in ids }
    IN  UNION { { q \in [1..n -> pool] : \A i, j \in 1..n : i # j => q[i] # q[j] }
                : n \in 0..MaxStockEntries }

OrderInputs ==
    UNION { { [ cost_center_id |-> c, cost_center_name |-> n, included |-> m \o q ]
              : c \in CostCenterIds, n \in CostCenterNames, q \in StockEntries(m) }
            : m \in MaterialEntries }

----------------------------------------------------------------------------
(* processWorkOrder *)

FirstIndex(s, Test(_)) ==
    LET hits == { i \in DOMAIN s : Test(s[i]) }
    IN  IF hits = {} THEN 0 ELSE CHOOSE i \in hits : \A j \in hits : i <= j

\* lines 415-426: the cost-center code, "undefined" when nothing resolves
ResolveCostCenterCode(attributes, costCenters) ==
    LET byId == IF attributes.cost_center_id # NoId
                THEN LET IdIs(c) == c.id = toString(attributes.cost_center_id)
                         k == FirstIndex(costCenters, IdIs)
                     IN  IF k = 0 THEN "undefined" ELSE costCenters[k].code
                ELSE "undefined"
    IN  IF attributes.cost_center_name # "" /\ byId = "undefined"
        THEN LET NameIs(c) == c.name = attributes.cost_center_name
                 k == FirstIndex(costCenters, NameIs)
             IN  IF k = 0 THEN "undefined" ELSE costCenters[k].code
        ELSE byId

\* getOdooCostCenterId that falls back on the first account of the list
getOdooCostCenterId_firstAccount(costCenterCode, odooAccounts) ==
    LET CodeIs(a) == a.code = costCenterCode
        k == FirstIndex(odooAccounts, CodeIs)
    IN  IF k = 0 THEN odooAccounts[1].id ELSE odooAccounts[k].id

\* getOdooCostCenterId: id of the first account with exactly that code;
\* NoId stands for the TypeError of odooAcccount_Id[0].id on an empty list
getOdooCostCenterId(costCenterCode, odooAccounts) ==
    LET CodeIs(a) == a.code = costCenterCode
        k == FirstIndex(odooAccounts, CodeIs)
    IN  IF k = 0 THEN NoId ELSE odooAccounts[k].id

\* StockMapEntry that keeps the price of the last stock entry of the group
StockMapEntry_lastPrice(included, materialId) ==
    LET IsStockOf(e) == e.type = "stock" /\ e.material_id = materialId
        group == SelectSeq(included, IsStockOf)
    IN  [ present       |-> group # <<>>,
          totalQuantity |-> SumSeq([i \in DOMAIN group |-> group[i].quantity]),
          meanPrice     |-> IF group = <<>> THEN 0 ELSE group[Len(group)].mean_price ]

\* lines 435-446: stockMap[materialId] = {totalQuantity, meanPrice}
StockMapEntry(included, materialId) ==
    LET IsStockOf(e) == e.type = "stock" /\ e.material_id = materialId
        group == SelectSeq(included, IsStockOf)
    IN  [ present       |-> group # <<>>,
          totalQuantity |-> SumSeq([i \in DOMAIN group |-> group[i].quantity]),
          meanPrice     |-> IF group = <<>> THEN 0 ELSE group[1].mean_price ]

\* folderCode = fullCode.split('.')[0]
FolderCode(fullCode) ==
    LET dots == { i \in DOMAIN fullCode : fullCode[i] = "." }
    IN  IF dots = {} THEN fullCode
        ELSE SubSeq(fullCode, 1, (CHOOSE i \in dots : \A j \in dots : i <= j) - 1)

\* lines 449-481, one material: "skip" (return null), "throw", or a line
MaterialOutcome(material) ==
    IF material.material_id = NoId THEN "skip"
    ELSE IF material.code = <<>> THEN "throw"
    ELSE IF material.full_code = <<>> THEN "throw"
    ELSE IF FolderCode(material.full_code) = <<>> THEN "throw"
    ELSE "line"

MaterialLine(included, material, workOrderId) ==
    LET stock == StockMapEntry(included, material.material_id)
    IN  [ workOrderId  |-> workOrderId,
          materialId   |-> material.material_id,
          materialCode |-> material.code,
          folderCode   |-> FolderCode(material.full_code),
          quantity     |-> IF stock.present THEN stock.totalQuantity ELSE 0,
          meanPrice    |-> IF stock.present THEN stock.meanPrice ELSE material.mean_price ]

\* lines 432-492: the material list, or ok = FALSE when a material throws
ProcessMaterials(included, workOrderId) ==
    LET IsMaterial(e) == e.type = "material"
        materials == SelectSeq(included, IsMaterial)
        Kept(m) == MaterialOutcome(m) = "line"
        kept == SelectSeq(materials, Kept)
    IN  [ ok       |-> \A i \in DOMAIN materials : MaterialOutcome(materials[i]) # "throw",
          material |-> [i \in DOMAIN kept |-> MaterialLine(included, kept[i], workOrderId)] ]

----------------------------------------------------------------------------
(* prepareInventoryPosting *)

\* the callback of odooStock.find on one product: "match", "no" or "throw"
ProductTest(product, workOrderItem) ==
    LET m == BracketMatch(product.product_id[2])
    IN  IF ~m.hit THEN "throw"
        ELSE IF m.group = <<>> THEN "throw"
        ELSE IF toUpperCase(trim(m.group)) = toUpperCase(trim(workOrderItem.materialCode))
        THEN "match" ELSE "no"

\* odooStock.find: index of the first matching product, 0 when none,
\* "throw" reported when the callback throws before a match is found
RECURSIVE FindMatchingProduct(_, _, _)
FindMatchingProduct(stock, workOrderItem, i) ==
    IF i > Len(stock) THEN [threw |-> FALSE, index |-> 0]
    ELSE LET t == ProductTest(stock[i], workOrderItem)
         IN  IF t = "throw" THEN [threw |-> TRUE, index |-> 0]
             ELSE IF t = "match" THEN [threw |-> FALSE, index |-> i]
             ELSE FindMatchingProduct(stock, workOrderItem, i + 1)

\* InventoryLine without the quantity validation of lines 552-556
InventoryLine_noQuantityCheck(workOrderItem, stock, firstWorkOrderId) ==
    LET f == FindMatchingProduct(stock, workOrderItem, 1)
    IN  IF workOrderItem.materialCode = <<>> \/ f.threw \/ f.index = 0
        THEN [ok |-> FALSE, stockIndex |-> 0, posting |-> <<>>]
        ELSE [ ok |-> TRUE, stockIndex |-> f.index,
               posting |-> [ product_id    |-> stock[f.index].product_id[1],
                             location_id   |-> stock[f.index].location_id[1],
                             quantity      |-> workOrderItem.quantity,
                             work_order_id |-> firstWorkOrderId ] ]

\* lines 521-567, one material line: ok with its posting, or a throw
InventoryLine(workOrderItem, stock, firstWorkOrderId) ==
    LET f == FindMatchingProduct(stock, workOrderItem, 1)
    IN  IF workOrderItem.materialCode = <<>> \/ f.threw \/ f.index = 0
        THEN [ok |-> FALSE, stockIndex |-> 0, posting |-> <<>>]
        ELSE IF stock[f.index].quantity - workOrderItem.quantity < 0
        THEN [ok |-> FALSE, stockIndex |-> f.index, posting |-> <<>>]
        ELSE [ ok |-> TRUE, stockIndex |-> f.index,
               posting |-> [ product_id    |-> stock[f.index].product_id[1],
                             location_id   |-> stock[f.index].location_id[1],
                             quantity      |-> workOrderItem.quantity,
                             work_order_id |-> firstWorkOrderId ] ]

prepareInventoryPosting(material, stock) ==
    LET lines == [i \in DOMAIN material |->
                    InventoryLine(material[i], stock, material[1].workOrderId)]
    IN  [ ok      |-> material # <<>> /\ \A i \in DOMAIN lines : lines[i].ok,
          results |-> [i \in DOMAIN lines |-> lines[i].posting] ]

----------------------------------------------------------------------------
(* The ledger *)

\* amount_total of a journal entry, as the ledger computes it for an entry
\* of move_type "entry": the sum of its debit lines
AmountTotal(move) ==
    SumSeq([i \in DOMAIN move.line_ids |-> move.line_ids[i].debit])

\* StockMoveRecord that keeps the direction of a COMPLETED posting
StockMoveRecord_sameDirection(data, state) ==
    [ product_id       |-> data.product_id,
      location_id      |-> data.location_id,
      location_dest_id |-> locationDestId,
      quantity         |-> data.quantity,
      x_work_order_id  |-> data.work_order_id,
      name             |-> IF state = "REVERSED" THEN "Stock Move REVERSED" ELSE "Stock move" ]

\* postOdooInventory: the stock.move record that is created
StockMoveRecord(data, state) ==
    [ product_id       |-> data.product_id,
      location_id      |-> IF state = "REVERSED" THEN locationDestId ELSE data.location_id,
      location_dest_id |-> IF state = "REVERSED" THEN data.location_id ELSE locationDestId,
      quantity         |-> data.quantity,
      x_work_order_id  |-> data.work_order_id,
      name             |-> IF state = "REVERSED" THEN "Stock Move REVERSED" ELSE "Stock move" ]

\* LineAmount without the REVERSED case
LineAmount_alwaysMultiplies(material, state) ==
    material.meanPrice * material.quantity

\* postOdooAccounting, lines 755: the amount of one (debit, credit) pair
LineAmount(material, state) ==
    IF state = "REVERSED" THEN material.meanPrice
    ELSE material.meanPrice * material.quantity

\* LinePair that credits the unit price whatever the quantity
LinePair_creditsUnitPrice(material, costCenterId, state) ==
    << [ account_id |-> IF state = "REVERSED" THEN costCenterId ELSE accountIdInventories,
         debit |-> LineAmount(material, state), credit |-> 0 ],
       [ account_id |-> IF state = "REVERSED" THEN accountIdInventories ELSE costCenterId,
         debit |-> 0, credit |-> material.meanPrice ] >>

\* postOdooAccounting, lines 750-769: the pairs of one material
LinePair(material, costCenterId, state) ==
    << [ account_id |-> IF state = "REVERSED" THEN costCenterId ELSE accountIdInventories,
         debit |-> LineAmount(material, state), credit |-> 0 ],
       [ account_id |-> IF state = "REVERSED" THEN accountIdInventories ELSE costCenterId,
         debit |-> 0, credit |-> LineAmount(material, state) ] >>

\* postOdooAccounting: the account.move record that is created, in draft
AccountMoveRecord(accountingData, costCenterId, state) ==
    [ ref             |-> state,
      line_ids        |-> Flatten([i \in DOMAIN accountingData.material |->
                              LinePair(accountingData.material[i], costCenterId, state)]),
      x_work_order_id |-> accountingData.workOrderId,
      state           |-> "draft" ]

\* processStockReversal with a stock query filtered by the work-order
\* reference alone
processStockReversal_byOrderOnly(moves, orderId, ids) ==
    LET hits == { k \in DOMAIN moves : moves[k].x_work_order_id = orderId }
        rows == SortedSeq(hits)
    IN  [i \in DOMAIN rows |->
            [ product_id    |-> moves[rows[i]].product_id,
              location_id   |-> moves[rows[i]].location_id,
              quantity      |-> moves[rows[i]].quantity,
              work_order_id |-> moves[rows[i]].x_work_order_id ]]

\* fetchStockMovementOdoo + processStockReversal: the reversal postings
\* rebuilt from the ledger rows of the order whose id is in resultIds
processStockReversal(moves, orderId, ids) ==
    LET hits == { k \in DOMAIN moves :
                    moves[k].x_work_order_id = orderId /\ k \in Range(ids) }
        rows == SortedSeq(hits)
    IN  [i \in DOMAIN rows |->
            [ product_id    |-> moves[rows[i]].product_id,
              location_id   |-> moves[rows[i]].location_id,
              quantity      |-> moves[rows[i]].quantity,
              work_order_id |-> moves[rows[i]].x_work_order_id ]]

\* fetchAccountMovementOdoo + processJournalReversal: found = FALSE is the
\* error thrown when no account.move has the persisted id
processJournalReversal(moves, orderId, accountMoveId, costCenterOdoo) ==
    IF accountMoveId \in DOMAIN moves
    THEN [ found |-> TRUE,
           data  |-> [ workOrderId |-> orderId,
                       costCenter  |-> costCenterOdoo,
                       material    |-> << [ workOrderId  |-> orderId,
                                            materialId   |-> NoId,
                                            materialCode |-> <<>>,
                                            folderCode   |-> <<>>,
                                            quantity     |-> 0,
                                            meanPrice    |-> AmountTotal(moves[accountMoveId]) ] >> ] ]
    ELSE [ found |-> FALSE,
           data  |-> [workOrderId |-> orderId, costCenter |-> costCenterOdoo, material |-> <<>>] ]

----------------------------------------------------------------------------
(* The poll handler *)

NoData == [cost_center_id |-> NoId, cost_center_name |-> "", included |-> <<>>]

NoWorkOrder == [workOrderId |-> NoId, costCenter |-> NoId, material |-> <<>>]

NoResultIds == [stock_move_ids |-> <<>>, account_move_id |-> NoId, cost_center_odoo |-> NoId]

\* item when the loop of step 4 runs to the last classified item
item_lastOfList ==
    checkedWithDynamo[Len(checkedWithDynamo)]

\* the item of the first iteration of the loop of step 4
item ==
    checkedWithDynamo[1]

\* the work-order handler has not been invoked
NoOrder == [order_id |-> NoId, manpower_cost |-> 0, cost_center_id |-> NoId, cost_center_name |-> ""]

NoLabour == [workOrderId |-> NoId, manpowerCost |-> 0, costCenter |-> NoId]

WebhookIdle ==
    /\ webhookStore = EmptyStore
    /\ webhookPc = "idle"
    /\ webhookOrder = NoOrder
    /\ webhookWorkOrder = NoLabour
    /\ webhookAccounting = NoId
    /\ webhookResponse = "none"
    /\ webhookThrownAt = "none"

\* the stock-sync handler has not been invoked
SyncIdle ==
    /\ syncPc = "idle"
    /\ stockOdoo = <<>>
    /\ productsOdoo = <<>>
    /\ stockToPost = <<>>
    /\ warehouseQtyInfraspeak = <<>>
    /\ syncPending = {}
    /\ postedResults = <<>>
    /\ stockMovements = <<>>
    /\ syncResponse = "none"

\* getProductDetailsOdoo has not returned
NoDetails ==
    [ productCode |-> <<>>, productName |-> <<>>, averageCost |-> 0,
      categoryName |-> <<>>, categoryCode |-> <<>>, warehouseId |-> NoId,
      quantity |-> 0 ]

\* the ledger tables before the handler has read the ledger
NoTables == [products |-> <<>>, categories |-> <<>>]

\* the product-creation handler has not been invoked
CreateIdle ==
    /\ createPc = "idle"
    /\ ledgerTables = NoTables
    /\ createStock = <<>>
    /\ productsInfraspeak = <<>>
    /\ warehousesInfraspeak = <<>>
    /\ unmatchedProductCodes = <<>>
    /\ productDetails = NoDetails
    /\ folderId = NoId
    /\ createdMaterial = NoId
    /\ fieldPosts = <<>>
    /\ createResponse = "none"

\* the poll handler has not been invoked and its table is empty
RequestIdle ==
    /\ store = EmptyStore
    /\ stockMove = <<>>
    /\ pc = "idle"
    /\ payloadRequest = <<>>
    /\ existingItems = <<>>
    /\ checkedWithDynamo = <<>>
    /\ odooStock = <<>>
    /\ infraspeakData = NoData
    /\ processedWorkOrder = NoWorkOrder
    /\ inventoryData = <<>>
    /\ inFlight = {}
    /\ rejected = FALSE
    /\ responseInventory = <<>>
    /\ responseAccounting = NoId
    /\ resultIds = NoResultIds
    /\ response = "none"
    /\ thrownAt = "none"

\* locals of a poll invocation that has not started
NoInvocation ==
    [ pc |-> "idle", payloadRequest |-> <<>>, existingItems |-> <<>>,
      checkedWithDynamo |-> <<>>, odooStock |-> <<>>, infraspeakData |-> NoData,
      processedWorkOrder |-> NoWorkOrder, inventoryData |-> <<>>, inFlight |-> {},
      rejected |-> FALSE, responseInventory |-> <<>>, responseAccounting |-> NoId,
      resultIds |-> NoResultIds, response |-> "none", thrownAt |-> "none" ]

\* locals of a work-order invocation that has not started
NoWebhookInvocation ==
    [ webhookPc |-> "idle", webhookOrder |-> NoOrder, webhookWorkOrder |-> NoLabour,
      webhookAccounting |-> NoId, webhookResponse |-> "none", webhookThrownAt |-> "none" ]

\* no second invocation runs beside the first
NoneSuspended ==
    /\ suspended = NoInvocation
    /\ webhookSuspended = NoWebhookInvocation

Init ==
    /\ RequestIdle
    /\ accountMove = <<>>
    /\ failures = 0
    /\ WebhookIdle
    /\ SyncIdle
    /\ NoneSuspended
    /\ CreateIdle

\* a throw that reaches the catch block of handler
Throw ==
    /\ pc' = "catch"
    /\ thrownAt' = pc

\* one more remote or store call has failed
CallFails ==
    /\ failures < MaxFailures
    /\ failures' = failures + 1

\* handler is invoked by the poll tick: a fresh invocation
Handler ==
    /\ UNCHANGED << webhookVars, syncVars, suspendedVars, createVars >>
    /\ UNCHANGED failures
    /\ pc = "idle"
    /\ Len(accountMove) < MaxAccountMoves
    /\ Len(stockMove) + 2 <= MaxStockMoves
    /\ pc' = "getInfraspeakRequests"
    /\ payloadRequest' = <<>>
    /\ existingItems' = <<>>
    /\ checkedWithDynamo' = <<>>
    /\ odooStock' = <<>>
    /\ infraspeakData' = NoData
    /\ processedWorkOrder' = NoWorkOrder
    /\ inventoryData' = <<>>
    /\ inFlight' = {}
    /\ rejected' = FALSE
    /\ responseInventory' = <<>>
    /\ responseAccounting' = NoId
    /\ resultIds' = NoResultIds
    /\ response' = "none"
    /\ thrownAt' = "none"
    /\ UNCHANGED << store, stockMove, accountMove >>

\* handler, step 1: getInfraspeakRequests
GetInfraspeakRequests ==
    /\ UNCHANGED << webhookVars, syncVars, suspendedVars, createVars >>
    /\ UNCHANGED failures
    /\ pc = "getInfraspeakRequests"
    /\ \E b \in Batches : payloadRequest' = b
    /\ pc' = "checkAndUpsert"
    /\ UNCHANGED << store, stockMove, accountMove, existingItems, checkedWithDynamo,
                    odooStock, infraspeakData, processedWorkOrder, inventoryData,
                    inFlight, rejected, responseInventory, responseAccounting,
                    resultIds, response, thrownAt >>

\* handler, step 2: checkAndUpsertRequests, every store call succeeding;
\* a null result makes handler return 200 (lines 88-90)
CheckAndUpsertRequests ==
    /\ UNCHANGED << webhookVars, syncVars, suspendedVars, createVars >>
    /\ UNCHANGED failures
    /\ pc = "checkAndUpsert"
    /\ LET run == Reconcile(store, payloadRequest)
       IN  /\ existingItems' = getAllRequestsFromDynamo(store)
           /\ store' = run.store
           /\ checkedWithDynamo' = run.results
           /\ IF run.results = <<>>
              THEN pc' = "idle" /\ response' = "200"
              ELSE pc' = "fetchReference" /\ response' = response
    /\ UNCHANGED << stockMove, accountMove, payloadRequest, odooStock,
                    infraspeakData, processedWorkOrder, inventoryData, inFlight,
                    rejected, responseInventory, responseAccounting, resultIds,
                    thrownAt >>

\* checkAndUpsertRequests when its store write number n + 1 throws: the
\* first n writes are in the store and no result is returned
CheckAndUpsertWriteFails ==
    /\ UNCHANGED << webhookVars, syncVars, suspendedVars, createVars >>
    /\ CallFails
    /\ pc = "checkAndUpsert"
    /\ LET existing == getAllRequestsFromDynamo(store)
           writes   == ReconcileWrites(existing, payloadRequest)
       IN  /\ existingItems' = existing
           /\ \E n \in 0..(Len(writes) - 1) : store' = ApplyWrites(store, writes, n)
    /\ Throw
    /\ UNCHANGED << stockMove, accountMove, payloadRequest, checkedWithDynamo,
                    odooStock, infraspeakData, processedWorkOrder, inventoryData,
                    inFlight, rejected, responseInventory, responseAccounting,
                    resultIds, response >>

\* handler, step 3: getCostCentersInfraspeak and getOdooStockQuant
FetchReferenceData ==
    /\ UNCHANGED << webhookVars, syncVars, suspendedVars, createVars >>
    /\ UNCHANGED failures
    /\ pc = "fetchReference"
    /\ \E s \in StockSnapshots : odooStock' = s
    /\ pc' = IF item.state = "COMPLETED" THEN "getInfraspeakData" ELSE "fetchOdooIds"
    /\ UNCHANGED << store, stockMove, accountMove, payloadRequest, existingItems,
                    checkedWithDynamo, infraspeakData, processedWorkOrder,
                    inventoryData, inFlight, rejected, responseInventory,
                    responseAccounting, resultIds, response, thrownAt >>

\* handler, step 4.1: getInfraspeakData
GetInfraspeakData ==
    /\ UNCHANGED << webhookVars, syncVars, suspendedVars, createVars >>
    /\ UNCHANGED failures
    /\ pc = "getInfraspeakData"
    /\ \E d \in OrderDetails(item.related_to_id) : infraspeakData' = d
    /\ pc' = "processWorkOrder"
    /\ UNCHANGED << store, stockMove, accountMove, payloadRequest, existingItems,
                    checkedWithDynamo, odooStock, processedWorkOrder,
                    inventoryData, inFlight, rejected, responseInventory,
                    responseAccounting, resultIds, response, thrownAt >>

\* handler, step 4.1.2: processWorkOrder; saved tells whether the store
\* write of saveCostCenterToDynamo succeeded (its failure is caught and
\* logged at lines 508-513, and processWorkOrder goes on)
ProcessWorkOrderWith(saved) ==
    /\ UNCHANGED << webhookVars, syncVars, suspendedVars, createVars >>
    /\ IF saved THEN UNCHANGED failures ELSE CallFails
    /\ pc = "processWorkOrder"
    /\ LET code       == ResolveCostCenterCode(infraspeakData, CostCenters)
           costCenter == getOdooCostCenterId(code, OdooAccounts)
           materials  == ProcessMaterials(infraspeakData.included, item.related_to_id)
       IN  IF costCenter = NoId
           THEN /\ saved
                /\ Throw
                /\ UNCHANGED << store, processedWorkOrder >>
           ELSE /\ store' = IF saved
                            THEN saveCostCenterToDynamo(store, item.request_id, costCenter)
                            ELSE store
                /\ IF materials.ok
                   THEN /\ processedWorkOrder' =
                              [ workOrderId |-> item.related_to_id,
                                costCenter  |-> costCenter,
                                material    |-> materials.material ]
                        /\ pc' = "prepareInventoryPosting"
                        /\ UNCHANGED thrownAt
                   ELSE /\ Throw
                        /\ UNCHANGED processedWorkOrder
    /\ UNCHANGED << stockMove, accountMove, payloadRequest, existingItems,
                    checkedWithDynamo, odooStock, infraspeakData,
                    inventoryData, inFlight, rejected, responseInventory,
                    responseAccounting, resultIds, response >>

ProcessWorkOrder == ProcessWorkOrderWith(TRUE)

ProcessWorkOrderSaveFails == ProcessWorkOrderWith(FALSE)

\* handler, step 4.1.3: prepareInventoryPosting; on success postToOdoo
\* issues one stock.move create per posting (Promise.all, lines 584-588)
PrepareInventoryPosting ==
    /\ UNCHANGED << webhookVars, syncVars, suspendedVars, createVars >>
    /\ UNCHANGED failures
    /\ pc = "prepareInventoryPosting"
    /\ LET prepared == prepareInventoryPosting(processedWorkOrder.material, odooStock)
       IN  IF prepared.ok
           THEN /\ inventoryData' = prepared.results
                /\ inFlight' = DOMAIN prepared.results
                /\ responseInventory' = [i \in DOMAIN prepared.results |-> NoId]
                /\ pc' = "postToOdoo"
                /\ UNCHANGED thrownAt
           ELSE /\ Throw
                /\ UNCHANGED << inventoryData, inFlight, responseInventory >>
    /\ UNCHANGED << store, stockMove, accountMove, payloadRequest, existingItems,
                    checkedWithDynamo, odooStock, infraspeakData, processedWorkOrder,
                    rejected, responseAccounting, resultIds, response >>

\* handler, step 4.2.1: fetchOdooIdsFromDynamo
FetchOdooIdsFromDynamo ==
    /\ UNCHANGED << webhookVars, syncVars, suspendedVars, createVars >>
    /\ UNCHANGED failures
    /\ pc = "fetchOdooIds"
    /\ resultIds' =
          [ stock_move_ids   |-> store[item.request_id].stock_move_ids,
            account_move_id  |-> store[item.request_id].account_move_id,
            cost_center_odoo |-> store[item.request_id].cost_center_odoo ]
    /\ pc' = "processStockReversal"
    /\ UNCHANGED << store, stockMove, accountMove, payloadRequest, existingItems,
                    checkedWithDynamo, odooStock, infraspeakData, processedWorkOrder,
                    inventoryData, inFlight, rejected, responseInventory,
                    responseAccounting, response, thrownAt >>

\* handler, step 4.2.2: processStockReversal
ProcessStockReversal ==
    /\ UNCHANGED << webhookVars, syncVars, suspendedVars, createVars >>
    /\ UNCHANGED failures
    /\ pc = "processStockReversal"
    /\ inventoryData' =
          processStockReversal(stockMove, item.related_to_id, resultIds.stock_move_ids)
    /\ pc' = "processJournalReversal"
    /\ UNCHANGED << store, stockMove, accountMove, payloadRequest, existingItems,
                    checkedWithDynamo, odooStock, infraspeakData, processedWorkOrder,
                    inFlight, rejected, responseInventory, responseAccounting,
                    resultIds, response, thrownAt >>

\* handler, step 4.2.2: processJournalReversal; on success postToOdoo
\* issues one stock.move create per reversal posting
ProcessJournalReversal ==
    /\ UNCHANGED << webhookVars, syncVars, suspendedVars, createVars >>
    /\ UNCHANGED failures
    /\ pc = "processJournalReversal"
    /\ LET prepared == processJournalReversal(accountMove, item.related_to_id,
                           resultIds.account_move_id, resultIds.cost_center_odoo)
       IN  IF prepared.found
           THEN /\ processedWorkOrder' = prepared.data
                /\ inFlight' = DOMAIN inventoryData
                /\ responseInventory' = [i \in DOMAIN inventoryData |-> NoId]
                /\ pc' = "postToOdoo"
                /\ UNCHANGED thrownAt
           ELSE /\ Throw
                /\ UNCHANGED << processedWorkOrder, inFlight, responseInventory >>
    /\ UNCHANGED << store, stockMove, accountMove, payloadRequest, existingItems,
                    checkedWithDynamo, odooStock, infraspeakData, inventoryData,
                    rejected, responseAccounting, resultIds, response >>

\* postToOdoo, lines 584-588: one stock.move create returns its id
PostOdooInventory ==
    /\ UNCHANGED << webhookVars, syncVars, suspendedVars, createVars >>
    /\ UNCHANGED failures
    /\ pc = "postToOdoo"
    /\ \E i \in inFlight :
       /\ inFlight' = inFlight \ {i}
       /\ stockMove' = Append(stockMove, StockMoveRecord(inventoryData[i], item.state))
       /\ responseInventory' = [responseInventory EXCEPT ![i] = Len(stockMove) + 1]
    /\ UNCHANGED << store, accountMove, pc, payloadRequest, existingItems,
                    checkedWithDynamo, odooStock, infraspeakData, processedWorkOrder,
                    inventoryData, rejected, responseAccounting, resultIds, response,
                    thrownAt >>

\* postToOdoo, lines 584-588: one stock.move create throws
PostOdooInventoryFails ==
    /\ UNCHANGED << webhookVars, syncVars, suspendedVars, createVars >>
    /\ CallFails
    /\ pc = "postToOdoo"
    /\ \E i \in inFlight : inFlight' = inFlight \ {i}
    /\ rejected' = TRUE
    /\ UNCHANGED << store, stockMove, accountMove, pc, payloadRequest, existingItems,
                    checkedWithDynamo, odooStock, infraspeakData, processedWorkOrder,
                    inventoryData, responseInventory, responseAccounting, resultIds,
                    response, thrownAt >>

\* postToOdoo, lines 584-594: one stock.move create is answered with an
\* error body (HTTP 200 without result, which fetchRequestOdoo returns as
\* it is): no record is created and response.result is undefined
PostOdooInventoryRefused ==
    /\ UNCHANGED << webhookVars, syncVars, suspendedVars, createVars >>
    /\ CallFails
    /\ pc = "postToOdoo"
    /\ ~rejected
    /\ \E i \in inFlight : inFlight' = inFlight \ {i}
    /\ UNCHANGED << store, stockMove, accountMove, pc, payloadRequest, existingItems,
                    checkedWithDynamo, odooStock, infraspeakData, processedWorkOrder,
                    inventoryData, rejected, responseInventory, responseAccounting,
                    resultIds, response, thrownAt >>

\* postToOdoo, lines 584 and 612-615: Promise.all rejects with the failed
\* create; the creates that have not settled by then are abandoned
PostToOdooRejected ==
    /\ UNCHANGED << webhookVars, syncVars, suspendedVars, createVars >>
    /\ UNCHANGED failures
    /\ pc = "postToOdoo"
    /\ rejected
    /\ inFlight' = {}
    /\ Throw
    /\ UNCHANGED << store, stockMove, accountMove, payloadRequest, existingItems,
                    checkedWithDynamo, odooStock, infraspeakData, processedWorkOrder,
                    inventoryData, rejected, responseInventory, responseAccounting,
                    resultIds, response >>

\* AccountingReady when postToOdoo does not await the stock.move creates
AccountingReady_createsPending ==
    /\ pc = "postToOdoo"
    /\ ~rejected

\* the account.move create may be issued: every stock.move create returned
AccountingReady ==
    /\ pc = "postToOdoo"
    /\ inFlight = {}
    /\ ~rejected

\* postToOdoo, line 597: postOdooAccounting
PostOdooAccounting ==
    /\ UNCHANGED << webhookVars, syncVars, suspendedVars, createVars >>
    /\ UNCHANGED failures
    /\ AccountingReady
    /\ accountMove' = Append(accountMove,
          AccountMoveRecord(processedWorkOrder, processedWorkOrder.costCenter, item.state))
    /\ responseAccounting' = Len(accountMove) + 1
    /\ pc' = "saveInventoryResponse"
    /\ UNCHANGED << store, stockMove, payloadRequest, existingItems,
                    checkedWithDynamo, odooStock, infraspeakData, processedWorkOrder,
                    inventoryData, inFlight, rejected, responseInventory,
                    resultIds, response, thrownAt >>

\* postToOdoo, line 602: saveInventoryResponseToDynamo; saved tells whether
\* its store write succeeded (its failure is caught and logged at lines
\* 632-637, and postToOdoo goes on)
SaveInventoryResponseWith(saved) ==
    /\ UNCHANGED << webhookVars, syncVars, suspendedVars, createVars >>
    /\ IF saved THEN UNCHANGED failures ELSE CallFails
    /\ pc = "saveInventoryResponse"
    /\ store' = IF saved
                THEN saveInventoryResponseToDynamo(store, item.request_id,
                         responseInventory, responseAccounting)
                ELSE store
    /\ pc' = "updateJournal"
    /\ UNCHANGED << stockMove, accountMove, payloadRequest, existingItems,
                    checkedWithDynamo, odooStock, infraspeakData, processedWorkOrder,
                    inventoryData, inFlight, rejected, responseInventory,
                    responseAccounting, resultIds, response, thrownAt >>

SaveInventoryResponseToDynamo == SaveInventoryResponseWith(TRUE)

SaveInventoryResponseFails == SaveInventoryResponseWith(FALSE)

\* postToOdoo, line 603: updateJournalFromDraftToDone (action_post), then
\* handler line 136 returns 200
UpdateJournalFromDraftToDone ==
    /\ UNCHANGED << webhookVars, syncVars, suspendedVars, createVars >>
    /\ UNCHANGED failures
    /\ pc = "updateJournal"
    /\ accountMove' = [accountMove EXCEPT ![responseAccounting].state = "posted"]
    /\ response' = "200"
    /\ pc' = "idle"
    /\ UNCHANGED << store, stockMove, payloadRequest, existingItems,
                    checkedWithDynamo, odooStock, infraspeakData, processedWorkOrder,
                    inventoryData, inFlight, rejected, responseInventory,
                    responseAccounting, resultIds, thrownAt >>

\* postToOdoo, line 603: action_post is answered with an error body; the
\* undefined result is returned by updateJournalFromDraftToDone and ignored
\* by postToOdoo, the entry stays in draft and handler line 136 returns 200
UpdateJournalRefused ==
    /\ UNCHANGED << webhookVars, syncVars, suspendedVars, createVars >>
    /\ CallFails
    /\ pc = "updateJournal"
    /\ response' = "200"
    /\ pc' = "idle"
    /\ UNCHANGED << store, stockMove, accountMove, payloadRequest, existingItems,
                    checkedWithDynamo, odooStock, infraspeakData, processedWorkOrder,
                    inventoryData, inFlight, rejected, responseInventory,
                    responseAccounting, resultIds, thrownAt >>

\* positions at which handler awaits one remote or store call that throws
\* on failure, with nothing written by the failed call
AwaitsCall ==
    \/ pc \in { "getInfraspeakRequests", "fetchReference", "getInfraspeakData",
                "processWorkOrder", "fetchOdooIds", "processStockReversal",
                "processJournalReversal", "updateJournal" }
    \/ pc = "checkAndUpsert" /\ ReconcileWrites(getAllRequestsFromDynamo(store), payloadRequest) = <<>>
    \/ AccountingReady

\* the awaited call fails: the error propagates to the catch block
RemoteCallFails ==
    /\ UNCHANGED << webhookVars, syncVars, suspendedVars, createVars >>
    /\ CallFails
    /\ AwaitsCall
    /\ Throw
    /\ UNCHANGED << store, stockMove, accountMove, payloadRequest, existingItems,
                    checkedWithDynamo, odooStock, infraspeakData, processedWorkOrder,
                    inventoryData, inFlight, rejected, responseInventory,
                    responseAccounting, resultIds, response >>

\* handler, lines 144-150: the catch block returns 500
HandlerCatch ==
    /\ UNCHANGED << webhookVars, syncVars, suspendedVars, createVars >>
    /\ UNCHANGED failures
    /\ pc = "catch"
    /\ pc' = "idle"
    /\ response' = "500"
    /\ UNCHANGED << store, stockMove, accountMove, payloadRequest, existingItems,
                    checkedWithDynamo, odooStock, infraspeakData, processedWorkOrder,
                    inventoryData, inFlight, rejected, responseInventory,
                    responseAccounting, resultIds, thrownAt >>

\* handler, line 145: getUserDetails throws inside the catch block, and the
\* invocation ends with a rejected promise instead of a response
GetUserDetailsFails ==
    /\ UNCHANGED << webhookVars, syncVars, suspendedVars, createVars >>
    /\ CallFails
    /\ pc = "catch"
    /\ pc' = "idle"
    /\ response' = "rejected"
    /\ UNCHANGED << store, stockMove, accountMove, payloadRequest, existingItems,
                    checkedWithDynamo, odooStock, infraspeakData, processedWorkOrder,
                    inventoryData, inFlight, rejected, responseInventory,
                    responseAccounting, resultIds, thrownAt >>

\* the steps of an invocation in which every remote and store call succeeds
NextOk ==
    \/ Handler
    \/ GetInfraspeakRequests
    \/ CheckAndUpsertRequests
    \/ FetchReferenceData
    \/ GetInfraspeakData
    \/ ProcessWorkOrder
    \/ PrepareInventoryPosting
    \/ FetchOdooIdsFromDynamo
    \/ ProcessStockReversal
    \/ ProcessJournalReversal
    \/ PostOdooInventory
    \/ PostOdooAccounting
    \/ SaveInventoryResponseToDynamo
    \/ UpdateJournalFromDraftToDone
    \/ HandlerCatch

\* the steps in which a remote or store call fails
NextFails ==
    \/ CheckAndUpsertWriteFails
    \/ ProcessWorkOrderSaveFails
    \/ PostOdooInventoryFails
    \/ PostOdooInventoryRefused
    \/ PostToOdooRejected
    \/ SaveInventoryResponseFails
    \/ UpdateJournalRefused
    \/ RemoteCallFails
    \/ GetUserDetailsFails

Next == NextOk \/ NextFails

Spec == Init /\ [][Next]_vars

\* the poll pipeline when every remote and store call succeeds
SpecOk == Init /\ [][NextOk]_vars

----------------------------------------------------------------------------
(* Translation and posting of one inserted request, on every order detail *)

\* handler after step 4.1 of its first invocation: request 1 has been
\* inserted and classified, and the order detail has been fetched
InitTranslate ==
    /\ store = Reconcile(EmptyStore, << Request(1, 1, <<77>>) >>).store
    /\ stockMove = <<>>
    /\ accountMove = <<>>
    /\ pc = "processWorkOrder"
    /\ payloadRequest = << Request(1, 1, <<77>>) >>
    /\ existingItems = <<>>
    /\ checkedWithDynamo = Reconcile(EmptyStore, << Request(1, 1, <<77>>) >>).results
    /\ odooStock \in StockSnapshots
    /\ infraspeakData \in OrderInputs
    /\ processedWorkOrder = NoWorkOrder
    /\ inventoryData = <<>>
    /\ inFlight = {}
    /\ rejected = FALSE
    /\ responseInventory = <<>>
    /\ responseAccounting = NoId
    /\ resultIds = NoResultIds
    /\ response = "none"
    /\ thrownAt = "none"
    /\ failures = 0
    /\ WebhookIdle
    /\ SyncIdle
    /\ NoneSuspended
    /\ CreateIdle

NextTranslate ==
    \/ ProcessWorkOrder
    \/ PrepareInventoryPosting
    \/ PostOdooInventory
    \/ PostOdooAccounting
    \/ SaveInventoryResponseToDynamo
    \/ UpdateJournalFromDraftToDone
    \/ HandlerCatch

SpecTranslate == InitTranslate /\ [][NextTranslate]_vars

----------------------------------------------------------------------------
(* The work-order handler (src/OdooSpeakWorkOrder.js): posts the labour    *)
(* cost of a completed order as a journal entry, once per order            *)

WebhookOrderIds == {201, 202}

ManpowerCosts == {0, 5}

\* getInfraspeakData of the work-order handler: data.attributes of the order
WebhookOrders(orderId) ==
    { [ order_id |-> orderId, manpower_cost |-> m,
        cost_center_id |-> c, cost_center_name |-> n ]
      : m \in ManpowerCosts, c \in CostCenterIds, n \in CostCenterNames }

\* processWorkOrder of the work-order handler, lines 161-170: the
\* cost-center code; threw is the TypeError of result.code when find
\* returns undefined
WebhookCostCenterCode(attributes, costCenters) ==
    LET IdIs(c) == c.id = toString(attributes.cost_center_id)
        NameIs(c) == c.name = attributes.cost_center_name
        i == FirstIndex(costCenters, IdIs)
        n == FirstIndex(costCenters, NameIs)
    IN  IF attributes.cost_center_id # NoId /\ i = 0
        THEN [threw |-> TRUE, code |-> "undefined"]
        ELSE IF attributes.cost_center_name # "" /\ n = 0
        THEN [threw |-> TRUE, code |-> "undefined"]
        ELSE IF attributes.cost_center_name # ""
        THEN [threw |-> FALSE, code |-> costCenters[n].code]
        ELSE IF attributes.cost_center_id # NoId
        THEN [threw |-> FALSE, code |-> costCenters[i].code]
        ELSE [threw |-> FALSE, code |-> "undefined"]

\* postOdooAccounting of the work-order handler: the account.move record
\* that is created, in draft, with lines only for a positive manpower cost
LabourMoveRecord(accountingData, costCenterId) ==
    [ ref             |-> IF accountingData.manpowerCost > 0 THEN "LABOUR" ELSE "undefined",
      line_ids        |-> IF accountingData.manpowerCost > 0
                          THEN << [ account_id |-> costCenterId,
                                    debit |-> accountingData.manpowerCost, credit |-> 0 ],
                                  [ account_id |-> accountIdSalaries,
                                    debit |-> 0, credit |-> accountingData.manpowerCost ] >>
                          ELSE <<>>,
      x_work_order_id |-> NoId,
      state           |-> "draft" ]

\* checkOrderInDynamo: posted_to_odoo of the order, <<>> for null
checkOrderInDynamo(st, orderId) ==
    IF orderId \in DOMAIN st THEN st[orderId].posted_to_odoo ELSE <<>>

\* addedToDynamo under a condition attribute_not_exists(posted_to_odoo): the
\* id of the first writer is kept
addedToDynamo_keepsFirst(st, orderId, moveId) ==
    [o \in DOMAIN st \cup {orderId} |->
        IF o \in DOMAIN st THEN st[o] ELSE [posted_to_odoo |-> toString(moveId)]]

\* addedToDynamo: the update creates the item when it does not exist
addedToDynamo(st, orderId, moveId) ==
    [o \in DOMAIN st \cup {orderId} |->
        IF o = orderId THEN [posted_to_odoo |-> toString(moveId)] ELSE st[o]]

\* a throw that reaches the catch block of the work-order handler
WebhookThrow ==
    /\ webhookPc' = "catch"
    /\ webhookThrownAt' = webhookPc

\* the work-order handler is invoked by the webhook of a completed order
WebhookHandler ==
    /\ UNCHANGED << requestVars, accountMove, failures, syncVars, suspendedVars, createVars >>
    /\ webhookPc = "idle"
    /\ Len(accountMove) < MaxAccountMoves
    /\ \E o \in WebhookOrderIds : webhookOrder' = [NoOrder EXCEPT !.order_id = o]
    /\ webhookPc' = "getInfraspeakData"
    /\ webhookWorkOrder' = NoLabour
    /\ webhookAccounting' = NoId
    /\ webhookResponse' = "none"
    /\ webhookThrownAt' = "none"
    /\ UNCHANGED webhookStore

\* handler, step 1: getInfraspeakData and getCostCentersInfraspeak
WebhookGetInfraspeakData ==
    /\ UNCHANGED << requestVars, accountMove, failures, syncVars, suspendedVars, createVars >>
    /\ webhookPc = "getInfraspeakData"
    /\ \E d \in WebhookOrders(webhookOrder.order_id) : webhookOrder' = d
    /\ webhookPc' = "checkOrderInDynamo"
    /\ UNCHANGED << webhookStore, webhookWorkOrder, webhookAccounting,
                    webhookResponse, webhookThrownAt >>

\* handler, step 2: checkOrderInDynamo; an order already posted throws
CheckOrderInDynamo ==
    /\ UNCHANGED << requestVars, accountMove, failures, syncVars, suspendedVars, createVars >>
    /\ webhookPc = "checkOrderInDynamo"
    /\ IF checkOrderInDynamo(webhookStore, webhookOrder.order_id) # <<>>
       THEN WebhookThrow
       ELSE webhookPc' = "processWorkOrder" /\ UNCHANGED webhookThrownAt
    /\ UNCHANGED << webhookStore, webhookOrder, webhookWorkOrder,
                    webhookAccounting, webhookResponse >>

\* handler, step 3: processWorkOrder
WebhookProcessWorkOrder ==
    /\ UNCHANGED << requestVars, accountMove, failures, syncVars, suspendedVars, createVars >>
    /\ webhookPc = "processWorkOrder"
    /\ LET resolved   == WebhookCostCenterCode(webhookOrder, CostCenters)
           costCenter == getOdooCostCenterId(resolved.code, OdooAccounts)
       IN  IF resolved.threw \/ costCenter = NoId
           THEN /\ WebhookThrow
                /\ UNCHANGED webhookWorkOrder
           ELSE /\ webhookWorkOrder' = [ workOrderId  |-> webhookOrder.order_id,
                                         manpowerCost |-> webhookOrder.manpower_cost,
                                         costCenter   |-> costCenter ]
                /\ webhookPc' = "postOdooAccounting"
                /\ UNCHANGED webhookThrownAt
    /\ UNCHANGED << webhookStore, webhookOrder, webhookAccounting, webhookResponse >>

\* postToOdoo, line 189: postOdooAccounting
WebhookPostOdooAccounting ==
    /\ UNCHANGED << requestVars, failures, syncVars, suspendedVars, createVars >>
    /\ webhookPc = "postOdooAccounting"
    /\ accountMove' = Append(accountMove,
                             LabourMoveRecord(webhookWorkOrder, webhookWorkOrder.costCenter))
    /\ webhookAccounting' = Len(accountMove) + 1
    /\ webhookPc' = "addedToDynamo"
    /\ UNCHANGED << webhookStore, webhookOrder, webhookWorkOrder,
                    webhookResponse, webhookThrownAt >>

\* postToOdoo, line 196: addedToDynamo, then handler line 108 returns 200
AddedToDynamo ==
    /\ UNCHANGED << requestVars, accountMove, failures, syncVars, suspendedVars, createVars >>
    /\ webhookPc = "addedToDynamo"
    /\ webhookStore' = addedToDynamo(webhookStore, webhookOrder.order_id, webhookAccounting)
    /\ webhookResponse' = "200"
    /\ webhookPc' = "idle"
    /\ UNCHANGED << webhookOrder, webhookWorkOrder, webhookAccounting, webhookThrownAt >>

\* the remote or store call awaited at this position throws, or the
\* account.move create is answered without result (line 191): the error
\* reaches the catch block and the failed call has written nothing
WebhookCallFails ==
    /\ UNCHANGED << requestVars, accountMove, syncVars, suspendedVars, createVars >>
    /\ CallFails
    /\ webhookPc \in { "getInfraspeakData", "checkOrderInDynamo", "processWorkOrder",
                        "postOdooAccounting", "addedToDynamo" }
    /\ WebhookThrow
    /\ UNCHANGED << webhookStore, webhookOrder, webhookWorkOrder,
                    webhookAccounting, webhookResponse >>

\* handler, lines 115-121: the catch block returns 500
WebhookCatch ==
    /\ UNCHANGED << requestVars, accountMove, failures, syncVars, suspendedVars, createVars >>
    /\ webhookPc = "catch"
    /\ webhookPc' = "idle"
    /\ webhookResponse' = "500"
    /\ UNCHANGED << webhookStore, webhookOrder, webhookWorkOrder,
                    webhookAccounting, webhookThrownAt >>

\* handler, line 116: getUserDetails throws inside the catch block, and the
\* invocation ends with a rejected promise instead of a response
WebhookGetUserDetailsFails ==
    /\ UNCHANGED << requestVars, accountMove, syncVars, suspendedVars, createVars >>
    /\ CallFails
    /\ webhookPc = "catch"
    /\ webhookPc' = "idle"
    /\ webhookResponse' = "rejected"
    /\ UNCHANGED << webhookStore, webhookOrder, webhookWorkOrder,
                    webhookAccounting, webhookThrownAt >>

NextWorkOrder ==
    \/ WebhookHandler
    \/ WebhookGetInfraspeakData
    \/ CheckOrderInDynamo
    \/ WebhookProcessWorkOrder
    \/ WebhookPostOdooAccounting
    \/ AddedToDynamo
    \/ WebhookCallFails
    \/ WebhookCatch
    \/ WebhookGetUserDetailsFails

SpecWorkOrder == Init /\ [][NextWorkOrder]_vars

----------------------------------------------------------------------------
(* The stock-sync handler (src/OdooSpeakStockSync.js): posts to the field  *)
(* system the difference between the ledger quantity and the field         *)
(* quantity of every mapped stock row                                      *)

MaxQuantity == 3

MaxMovements == 2

toLowerCase(s) ==
    [i \in DOMAIN s |->
        CASE s[i] = "W" -> "w"
          [] s[i] = "H" -> "h"
          [] s[i] = "M" -> "m"
          [] OTHER      -> s[i]]

\* String.prototype.includes
includes(s, t) ==
    \E i \in 1..(Len(s) - Len(t) + 1) : SubSeq(s, i, i + Len(t) - 1) = t

Digit(c) ==
    CASE c = "0" -> 0 [] c = "1" -> 1 [] c = "2" -> 2 [] c = "3" -> 3 [] c = "4" -> 4
      [] c = "5" -> 5 [] c = "6" -> 6 [] c = "7" -> 7 [] c = "8" -> 8 [] c = "9" -> 9

\* parseInt(s, 10) on a string of decimal digits
RECURSIVE parseInt(_)
parseInt(s) ==
    IF s = <<>> THEN 0 ELSE 10 * parseInt(SubSeq(s, 1, Len(s) - 1)) + Digit(s[Len(s)])

\* fetchProductsOdoo: products with their stock.quant ids and average cost
ProductsOdoo ==
    << [stock_quant_ids |-> {11, 13}, standard_price |-> 2, avg_cost |-> 3],
       [stock_quant_ids |-> {12}, standard_price |-> 5, avg_cost |-> 4] >>

\* fetchMaterialInfraspeak: id and code of the materials of the field system
MaterialInfraspeak ==
    << [id |-> <<"4", "1">>, code |-> <<"A">>],
       [id |-> <<"4", "2">>, code |-> <<"B">>] >>

\* fetchWarehouseInfraspeak: the real warehouses of the field system
WarehouseInfraspeak ==
    << [full_code |-> <<"M", ".", "W", "H">>, warehouse_id |-> 7] >>

StockQuant(id, displayName, warehouseName, quantity) ==
    [ id |-> id, product_id |-> <<30 + id, displayName>>,
      warehouse_id |-> <<1, warehouseName>>, quantity |-> quantity ]

\* display names of quant 13: a code that no material has, or the code of
\* the material of quant 11
SecondQuantNames == { <<"[", "a", "]">>, <<"[", "A", "]">> }

\* fetchStockOdoo: the stock.quant rows the ledger may return; quant 13 is a
\* second location of the product of quant 11 in the same warehouse, quant
\* 14 belongs to no product
LedgerStock ==
    { << StockQuant(11, <<"[", "A", "]">>, <<"w", "h">>, l1),
         StockQuant(12, <<"x", " ", "[", "B", "]">>, <<"W", "H">>, l2),
         StockQuant(13, n, <<"W", "H">>, 1),
         StockQuant(14, <<"[", "A", "]">>, <<"W", "H">>, 1) >>
      : l1 \in 0..MaxQuantity, l2 \in 0..MaxQuantity, n \in SecondQuantNames }
    \cup { <<>> }

FieldRecord(materialId, warehouseId, quantity) ==
    [ material_id |-> materialId, warehouse_id |-> warehouseId, stock_quantity |-> quantity ]

\* fetchWarehouseQuantitiesInfraspeak: for each of the two materials, no
\* record or one record of an integral quantity
FieldRecords(materialId) ==
    { <<>> } \cup { << FieldRecord(materialId, 7, f) >> : f \in 0..MaxQuantity }

FieldStock == { a \o b : a \in FieldRecords(41), b \in FieldRecords(42) }

\* the pages of the product read: one product on a page at the scale of the
\* model, where the code asks for 500
ProductPages == [i \in DOMAIN ProductsOdoo |-> << ProductsOdoo[i] >>]

\* fetchRequestOdooPage, lines 395-405, on a page that fetchRequestOdoo
\* (lines 411-433) could not read: the error is logged and undefined is
\* returned, which the callers handle as a page without rows
fetchRequestOdooPage(page, failed) ==
    IF failed THEN <<>> ELSE page

\* fetchStockOdoo: the single page of stock.quant rows
fetchStockOdoo(rows, failed) ==
    fetchRequestOdooPage(rows, failed)

\* fetchRequestPaginateOdoo: the pages are concatenated up to the first one
\* that comes back without rows; failedPage = 0 when every read succeeds
RECURSIVE PaginateFrom(_, _, _)
PaginateFrom(pages, failedPage, k) ==
    IF k > Len(pages) THEN <<>>
    ELSE LET currentBatch == fetchRequestOdooPage(pages[k], k = failedPage)
         IN  IF currentBatch = <<>> THEN <<>>
             ELSE currentBatch \o PaginateFrom(pages, failedPage, k + 1)

fetchRequestPaginateOdoo(pages, failedPage) ==
    PaginateFrom(pages, failedPage, 1)

LastIndex(s, Test(_)) ==
    LET hits == { i \in DOMAIN s : Test(s[i]) }
    IN  IF hits = {} THEN 0 ELSE CHOOSE i \in hits : \A j \in hits : i >= j

\* processOdooData, lines 98-122, one stock row: the row to post, or
\* "skip" for continue, or "throw" for the TypeError of match(...)[1]
ProcessStockRow(stock, products, materialInfraspeak, warehouseInfraspeak) ==
    LET HasQuant(p) == stock.id \in p.stock_quant_ids
        p == LastIndex(products, HasQuant)
        ref == BracketMatch(stock.product_id[2])
        HasCode(m) == m.code = ref.group
        m == LastIndex(materialInfraspeak, HasCode)
        HasName(w) == includes(toLowerCase(w.full_code), toLowerCase(stock.warehouse_id[2]))
        w == FirstIndex(warehouseInfraspeak, HasName)
    IN  IF p = 0 THEN [outcome |-> "skip"]
        ELSE IF ~ref.hit THEN [outcome |-> "throw"]
        ELSE IF m = 0 THEN [outcome |-> "skip"]
        ELSE IF w = 0 THEN [outcome |-> "skip"]
        ELSE [ outcome      |-> "row",
               MaterialId   |-> parseInt(materialInfraspeak[m].id),
               StandardCost |-> products[p].standard_price,
               AverageCost  |-> products[p].avg_cost,
               WarehouseId  |-> warehouseInfraspeak[w].warehouse_id,
               AvailableQty |-> stock.quantity ]

\* processOdooData: threw for an empty data set (lines 82-84) or a row that
\* throws, else the rows in the order of stockOdoo
processOdooData(stock, products, materialInfraspeak, warehouseInfraspeak) ==
    LET rows == [i \in DOMAIN stock |->
                    ProcessStockRow(stock[i], products, materialInfraspeak, warehouseInfraspeak)]
        IsRow(r) == r.outcome = "row"
    IN  [ threw  |-> \/ stock = <<>> \/ products = <<>>
                     \/ materialInfraspeak = <<>> \/ warehouseInfraspeak = <<>>
                     \/ \E i \in DOMAIN rows : rows[i].outcome = "throw",
          result |-> SelectSeq(rows, IsRow) ]

\* getMaterialQuantitiesFromInfraspeak: the quantity of the first record of
\* the pair; found = FALSE is the null returned when there is none
getMaterialQuantitiesFromInfraspeak(warehouseQuantities, materialId, warehouseId) ==
    LET IsPair(q) == q.material_id = materialId /\ q.warehouse_id = warehouseId
        k == FirstIndex(warehouseQuantities, IsPair)
    IN  IF k = 0 THEN [found |-> FALSE, quantity |-> 0]
        ELSE [found |-> TRUE, quantity |-> warehouseQuantities[k].stock_quantity]

stockMovementPayloadAdd(materialId, quantity, warehouseId, averageCost) ==
    [ action |-> "ADD", warehouse_id |-> warehouseId, mean_price |-> averageCost,
      material_id |-> materialId, quantity |-> quantity ]

stockMovementPayloadConsume(materialId, quantity, warehouseId, averageCost) ==
    [ action |-> "ABATE", warehouse_id |-> warehouseId, mean_price |-> averageCost,
      material_id |-> materialId, quantity |-> quantity ]

NoMovement ==
    [ action |-> "none", warehouse_id |-> NoId, mean_price |-> 0,
      material_id |-> NoId, quantity |-> 0 ]

\* RowMovement that adds the ledger quantity whenever it is the larger one
RowMovement_addsLedgerQuantity(warehouse, warehouseQuantities) ==
    LET q == getMaterialQuantitiesFromInfraspeak(warehouseQuantities,
                 warehouse.MaterialId, warehouse.WarehouseId)
    IN  IF warehouse.MaterialId = 0 THEN NoMovement
        ELSE IF q.found /\ q.quantity # 0
        THEN IF warehouse.AvailableQty > q.quantity
             THEN stockMovementPayloadAdd(warehouse.MaterialId,
                      warehouse.AvailableQty, warehouse.WarehouseId, warehouse.AverageCost)
             ELSE IF warehouse.AvailableQty < q.quantity
             THEN stockMovementPayloadConsume(warehouse.MaterialId,
                      q.quantity - warehouse.AvailableQty, warehouse.WarehouseId, warehouse.AverageCost)
             ELSE NoMovement
        ELSE stockMovementPayloadAdd(warehouse.MaterialId,
                 warehouse.AvailableQty, warehouse.WarehouseId, warehouse.AverageCost)

\* postStockToInfraspeak, lines 139-163: the movement that the callback of
\* one row posts, NoMovement when it returns null without posting
RowMovement(warehouse, warehouseQuantities) ==
    LET q == getMaterialQuantitiesFromInfraspeak(warehouseQuantities,
                 warehouse.MaterialId, warehouse.WarehouseId)
    IN  IF warehouse.MaterialId = 0 THEN NoMovement
        ELSE IF q.found /\ q.quantity # 0
        THEN IF warehouse.AvailableQty > q.quantity
             THEN stockMovementPayloadAdd(warehouse.MaterialId,
                      warehouse.AvailableQty - q.quantity, warehouse.WarehouseId, warehouse.AverageCost)
             ELSE IF warehouse.AvailableQty < q.quantity
             THEN stockMovementPayloadConsume(warehouse.MaterialId,
                      q.quantity - warehouse.AvailableQty, warehouse.WarehouseId, warehouse.AverageCost)
             ELSE NoMovement
        ELSE stockMovementPayloadAdd(warehouse.MaterialId,
                 warehouse.AvailableQty, warehouse.WarehouseId, warehouse.AverageCost)

\* what the callback of a row returns: null, or the response of its POST
NullResult == [stock_movement_id |-> NoId]

\* the stock-sync handler is invoked
SyncHandler ==
    /\ UNCHANGED << requestVars, accountMove, failures, webhookVars, suspendedVars, createVars >>
    /\ syncPc = "idle"
    /\ Len(stockMovements) + 2 <= MaxMovements
    /\ syncPc' = "fetch"
    /\ stockOdoo' = <<>>
    /\ productsOdoo' = <<>>
    /\ stockToPost' = <<>>
    /\ warehouseQtyInfraspeak' = <<>>
    /\ syncPending' = {}
    /\ postedResults' = <<>>
    /\ syncResponse' = "none"
    /\ UNCHANGED stockMovements

\* handler, step 1: the five reads
SyncFetch ==
    /\ UNCHANGED << requestVars, accountMove, failures, webhookVars, suspendedVars, createVars >>
    /\ syncPc = "fetch"
    /\ \E l \in LedgerStock : stockOdoo' = fetchStockOdoo(l, FALSE)
    /\ productsOdoo' = fetchRequestPaginateOdoo(ProductPages, 0)
    /\ \E f \in FieldStock : warehouseQtyInfraspeak' = f
    /\ syncPc' = "processOdooData"
    /\ UNCHANGED << stockToPost, syncPending, postedResults, stockMovements, syncResponse >>

\* handler, step 1: a read of the field system throws, and the catch block
\* returns 500
SyncFetchFails ==
    /\ UNCHANGED << requestVars, accountMove, webhookVars, suspendedVars, createVars >>
    /\ CallFails
    /\ syncPc = "fetch"
    /\ syncPc' = "idle"
    /\ syncResponse' = "500"
    /\ UNCHANGED << stockOdoo, productsOdoo, stockToPost, warehouseQtyInfraspeak,
                    syncPending, postedResults, stockMovements >>

\* handler, step 1: one read of the ledger fails, the single page of
\* fetchStockOdoo (k = 0) or page k of fetchProductsOdoo (the page after the
\* last one is the empty page that ends the loop); fetchRequestOdoo logs the
\* error, and Promise.all resolves with what the reads returned
SyncLedgerReadFails ==
    /\ UNCHANGED << requestVars, accountMove, webhookVars, suspendedVars, createVars >>
    /\ CallFails
    /\ syncPc = "fetch"
    /\ \E l \in LedgerStock, k \in 0..(Len(ProductPages) + 1) :
         /\ stockOdoo' = fetchStockOdoo(l, k = 0)
         /\ productsOdoo' = fetchRequestPaginateOdoo(ProductPages, k)
    /\ \E f \in FieldStock : warehouseQtyInfraspeak' = f
    /\ syncPc' = "processOdooData"
    /\ UNCHANGED << stockToPost, syncPending, postedResults, stockMovements, syncResponse >>

\* handler, step 2: processOdooData; on success postStockToInfraspeak
\* starts one callback per row (Promise.all, line 131)
ProcessOdooData ==
    /\ UNCHANGED << requestVars, accountMove, failures, webhookVars, suspendedVars, createVars >>
    /\ syncPc = "processOdooData"
    /\ LET processed == processOdooData(stockOdoo, productsOdoo,
                            MaterialInfraspeak, WarehouseInfraspeak)
       IN  IF processed.threw
           THEN /\ syncPc' = "idle"
                /\ syncResponse' = "500"
                /\ UNCHANGED << stockToPost, syncPending, postedResults >>
           ELSE /\ stockToPost' = processed.result
                /\ syncPending' = DOMAIN processed.result
                /\ postedResults' = [i \in DOMAIN processed.result |-> NullResult]
                /\ syncPc' = "postStockToInfraspeak"
                /\ UNCHANGED syncResponse
    /\ UNCHANGED << stockOdoo, productsOdoo, warehouseQtyInfraspeak, stockMovements >>

\* postStockToInfraspeak, lines 131-168: the callback of one row runs and
\* its POST, if it issues one, is answered with the id of the movement
PostStockMovement ==
    /\ UNCHANGED << requestVars, accountMove, failures, webhookVars, suspendedVars, createVars >>
    /\ syncPc = "postStockToInfraspeak"
    /\ \E i \in syncPending :
         LET movement == RowMovement(stockToPost[i], warehouseQtyInfraspeak)
         IN  /\ syncPending' = syncPending \ {i}
             /\ IF movement = NoMovement
                THEN UNCHANGED << stockMovements, postedResults >>
                ELSE /\ stockMovements' = Append(stockMovements, movement)
                     /\ postedResults' = [postedResults EXCEPT ![i] =
                                              [stock_movement_id |-> Len(stockMovements) + 1]]
    /\ UNCHANGED << syncPc, stockOdoo, productsOdoo, stockToPost,
                    warehouseQtyInfraspeak, syncResponse >>

\* PostStockMovementFails without the try/catch of the callback: the
\* rejection of one POST rejects Promise.all and the handler answers 500
PostStockMovementFails_abortsRun ==
    /\ UNCHANGED << requestVars, accountMove, webhookVars, suspendedVars, createVars >>
    /\ CallFails
    /\ syncPc = "postStockToInfraspeak"
    /\ \E i \in syncPending :
         RowMovement(stockToPost[i], warehouseQtyInfraspeak) # NoMovement
    /\ syncPc' = "idle"
    /\ syncResponse' = "500"
    /\ UNCHANGED << stockOdoo, productsOdoo, stockToPost, warehouseQtyInfraspeak,
                    syncPending, postedResults, stockMovements >>

\* postStockToInfraspeak, lines 164-167: the POST of one row throws, the
\* callback logs the error and returns null
PostStockMovementFails ==
    /\ UNCHANGED << requestVars, accountMove, webhookVars, suspendedVars, createVars >>
    /\ CallFails
    /\ syncPc = "postStockToInfraspeak"
    /\ \E i \in syncPending :
         /\ RowMovement(stockToPost[i], warehouseQtyInfraspeak) # NoMovement
         /\ syncPending' = syncPending \ {i}
    /\ UNCHANGED << syncPc, stockOdoo, productsOdoo, stockToPost,
                    warehouseQtyInfraspeak, postedResults, stockMovements, syncResponse >>

\* handler, steps 4 and 5: every callback has returned; 200 with or without
\* stock-movement ids
SyncRespond ==
    /\ UNCHANGED << requestVars, accountMove, failures, webhookVars, suspendedVars, createVars >>
    /\ syncPc = "postStockToInfraspeak"
    /\ syncPending = {}
    /\ syncPc' = "idle"
    /\ syncResponse' = "200"
    /\ UNCHANGED << stockOdoo, productsOdoo, stockToPost, warehouseQtyInfraspeak,
                    syncPending, postedResults, stockMovements >>

NextSync ==
    \/ SyncHandler
    \/ SyncFetch
    \/ SyncFetchFails
    \/ SyncLedgerReadFails
    \/ ProcessOdooData
    \/ PostStockMovement
    \/ PostStockMovementFails
    \/ SyncRespond

SpecSync == Init /\ [][NextSync]_vars

----------------------------------------------------------------------------
(* The ledger under both posting pipelines: the work-order handler and the *)
(* poll handler create their journal entries in the same ledger.  The two  *)
(* handlers share no other state, so their invocations are taken one after *)
(* the other: one webhook delivery, failing or not, then the polls, which  *)
(* run with every call succeeding, from the empty ledger or after the      *)
(* labour entry of the delivery                                            *)

NextJournal ==
    \/ /\ pc = "idle" /\ response = "none"
       /\ webhookPc # "idle" \/ webhookResponse = "none"
       /\ NextWorkOrder
    \/ /\ webhookPc = "idle" /\ webhookResponse \in {"none", "200"}
       /\ NextOk

SpecJournal == Init /\ [][NextJournal]_vars

----------------------------------------------------------------------------
(* Overlapping invocations: two triggers of the same handler run at the    *)
(* same time, each in its own execution environment.  The variables hold   *)
(* the locals of the invocation that takes the next step; the locals of    *)
(* the other one are kept in suspended / webhookSuspended, and a switch    *)
(* between two awaited calls exchanges them.  The tables and the ledger    *)
(* are shared.                                                             *)

\* checkAndUpsertRequests, line 162: the scan returns
ScanRequests ==
    /\ UNCHANGED << webhookVars, syncVars, suspendedVars, createVars >>
    /\ UNCHANGED failures
    /\ pc = "checkAndUpsert"
    /\ existingItems' = getAllRequestsFromDynamo(store)
    /\ pc' = "upsert"
    /\ UNCHANGED << store, stockMove, accountMove, payloadRequest, checkedWithDynamo,
                    odooStock, infraspeakData, processedWorkOrder, inventoryData,
                    inFlight, rejected, responseInventory, responseAccounting,
                    resultIds, response, thrownAt >>

\* checkAndUpsertRequests, lines 165-237: the two loops decide against the
\* scan taken before and write to the table as it is now
UpsertRequests ==
    /\ UNCHANGED << webhookVars, syncVars, suspendedVars, createVars >>
    /\ UNCHANGED failures
    /\ pc = "upsert"
    /\ LET writes  == ReconcileWrites(existingItems, payloadRequest)
           results == ReconcileResults(existingItems, payloadRequest)
       IN  /\ store' = ApplyWrites(store, writes, Len(writes))
           /\ checkedWithDynamo' = results
           /\ IF results = <<>>
              THEN pc' = "idle" /\ response' = "200"
              ELSE pc' = "fetchReference" /\ response' = response
    /\ UNCHANGED << stockMove, accountMove, payloadRequest, existingItems, odooStock,
                    infraspeakData, processedWorkOrder, inventoryData, inFlight,
                    rejected, responseInventory, responseAccounting, resultIds,
                    thrownAt >>

\* the other invocation of the poll handler takes the next steps
ResumeOther ==
    /\ UNCHANGED << webhookVars, syncVars, webhookSuspended, createVars >>
    /\ UNCHANGED << failures, store, stockMove, accountMove >>
    /\ suspended # NoInvocation \/ pc # "idle"
    /\ suspended' =
          [ pc |-> pc, payloadRequest |-> payloadRequest, existingItems |-> existingItems,
            checkedWithDynamo |-> checkedWithDynamo, odooStock |-> odooStock,
            infraspeakData |-> infraspeakData, processedWorkOrder |-> processedWorkOrder,
            inventoryData |-> inventoryData, inFlight |-> inFlight, rejected |-> rejected,
            responseInventory |-> responseInventory,
            responseAccounting |-> responseAccounting, resultIds |-> resultIds,
            response |-> response, thrownAt |-> thrownAt ]
    /\ pc' = suspended.pc
    /\ payloadRequest' = suspended.payloadRequest
    /\ existingItems' = suspended.existingItems
    /\ checkedWithDynamo' = suspended.checkedWithDynamo
    /\ odooStock' = suspended.odooStock
    /\ infraspeakData' = suspended.infraspeakData
    /\ processedWorkOrder' = suspended.processedWorkOrder
    /\ inventoryData' = suspended.inventoryData
    /\ inFlight' = suspended.inFlight
    /\ rejected' = suspended.rejected
    /\ responseInventory' = suspended.responseInventory
    /\ responseAccounting' = suspended.responseAccounting
    /\ resultIds' = suspended.resultIds
    /\ response' = suspended.response
    /\ thrownAt' = suspended.thrownAt

\* the other invocation of the work-order handler takes the next steps
WebhookResumeOther ==
    /\ UNCHANGED << requestVars, accountMove, failures, syncVars, suspended, createVars >>
    /\ webhookSuspended # NoWebhookInvocation \/ webhookPc # "idle"
    /\ webhookSuspended' =
          [ webhookPc |-> webhookPc, webhookOrder |-> webhookOrder,
            webhookWorkOrder |-> webhookWorkOrder, webhookAccounting |-> webhookAccounting,
            webhookResponse |-> webhookResponse, webhookThrownAt |-> webhookThrownAt ]
    /\ webhookPc' = webhookSuspended.webhookPc
    /\ webhookOrder' = webhookSuspended.webhookOrder
    /\ webhookWorkOrder' = webhookSuspended.webhookWorkOrder
    /\ webhookAccounting' = webhookSuspended.webhookAccounting
    /\ webhookResponse' = webhookSuspended.webhookResponse
    /\ webhookThrownAt' = webhookSuspended.webhookThrownAt
    /\ UNCHANGED webhookStore

\* the steps of two overlapping poll invocations, every call succeeding;
\* each of the two is invoked once
NextPollOverlap ==
    \/ response = "none" /\ Handler
    \/ GetInfraspeakRequests
    \/ ScanRequests
    \/ UpsertRequests
    \/ FetchReferenceData
    \/ GetInfraspeakData
    \/ ProcessWorkOrder
    \/ PrepareInventoryPosting
    \/ FetchOdooIdsFromDynamo
    \/ ProcessStockReversal
    \/ ProcessJournalReversal
    \/ PostOdooInventory
    \/ PostOdooAccounting
    \/ SaveInventoryResponseToDynamo
    \/ UpdateJournalFromDraftToDone
    \/ HandlerCatch
    \/ ResumeOther

\* overlapping deliveries of the webhook, each of the two invoked once, or
\* overlapping polls
NextOverlap ==
    \/ /\ pc = "idle" /\ response = "none" /\ suspended = NoInvocation
       /\ webhookPc = "idle" => webhookResponse = "none"
       /\ NextWorkOrder
    \/ /\ pc = "idle" /\ response = "none" /\ suspended = NoInvocation
       /\ WebhookResumeOther
    \/ /\ webhookPc = "idle" /\ webhookResponse = "none"
       /\ webhookSuspended = NoWebhookInvocation
       /\ NextPollOverlap

SpecOverlap == Init /\ [][NextOverlap]_vars

----------------------------------------------------------------------------
(* Longer runs of the poll handler with every call succeeding: a request   *)
(* is posted, retracted, reinstated and retracted again                    *)

\* handler is invoked by the poll tick: a fresh invocation, admitted one
\* posting later than Handler admits it
HandlerOnceMore ==
    /\ UNCHANGED << webhookVars, syncVars, suspendedVars, createVars >>
    /\ UNCHANGED failures
    /\ pc = "idle"
    /\ Len(accountMove) <= MaxAccountMoves
    /\ Len(stockMove) <= MaxStockMoves
    /\ pc' = "getInfraspeakRequests"
    /\ payloadRequest' = <<>>
    /\ existingItems' = <<>>
    /\ checkedWithDynamo' = <<>>
    /\ odooStock' = <<>>
    /\ infraspeakData' = NoData
    /\ processedWorkOrder' = NoWorkOrder
    /\ inventoryData' = <<>>
    /\ inFlight' = {}
    /\ rejected' = FALSE
    /\ responseInventory' = <<>>
    /\ responseAccounting' = NoId
    /\ resultIds' = NoResultIds
    /\ response' = "none"
    /\ thrownAt' = "none"
    /\ UNCHANGED << store, stockMove, accountMove >>

NextReinstate ==
    \/ HandlerOnceMore
    \/ NextOk

SpecReinstate == Init /\ [][NextReinstate]_vars

----------------------------------------------------------------------------
(* The product-creation handler (src/unnamed/part_000): creates in the     *)
(* field system one ledger product whose code no real material carries, in *)
(* a folder that carries the code of its category                          *)

\* normalizeCode that trims and keeps the case of the letters
normalizeCode_keepsCase(code) ==
    IF trim(code) # <<>> THEN trim(code) ELSE <<>>

\* normalizeCode: the trimmed, upper-cased code; << >> stands for the null
\* returned for what is no string or is blank, which filter(Boolean) drops
\* as it drops the empty string
normalizeCode(code) ==
    IF trim(code) # <<>> THEN toUpperCase(trim(code)) ELSE <<>>

\* the code between brackets of the display name of a stock.quant row
ReferenceCode(stock) ==
    LET ref == BracketMatch(stock.product_id[2])
    IN  IF ref.hit THEN ref.group ELSE <<>>

\* [...new Set(list)]: the first occurrence of every element, in order
RECURSIVE UniqueSeq(_)
UniqueSeq(s) ==
    IF s = <<>> THEN <<>>
    ELSE LET front == UniqueSeq(SubSeq(s, 1, Len(s) - 1))
         IN  IF s[Len(s)] \in Range(front) THEN front ELSE Append(front, s[Len(s)])

\* matchProductsBetweenPlatforms: the normalised ledger codes that no real
\* entry of the field system carries
matchProductsBetweenPlatforms(odooData, infraspeakProducts) ==
    LET IsCode(c) == c # <<>>
        odooDataList ==
            UniqueSeq(SelectSeq([i \in DOMAIN odooData |->
                                    normalizeCode(ReferenceCode(odooData[i]))], IsCode))
        infraspeakSet ==
            { normalizeCode(infraspeakProducts[i].code) :
                i \in { j \in DOMAIN infraspeakProducts : infraspeakProducts[j].is_real } } \ { <<>> }
        Unmatched(c) == c # <<>> /\ c \notin infraspeakSet
    IN  SelectSeq(odooDataList, Unmatched)

\* fetchProductsOdoo: the rows of product.product with the id
fetchProductsOdoo(tables, productId) ==
    LET HasId(p) == p.id = productId
    IN  SelectSeq(tables.products, HasId)

\* fetchCategoryOdoo: the rows of product.category with the id
fetchCategoryOdoo(tables, categoryId) ==
    LET HasId(c) == c.id = categoryId
    IN  SelectSeq(tables.categories, HasId)

\* the row that odooData.find returns for a code (lines 161-166), 0 for none
StockDetails(odooData, code) ==
    LET HasCode(stock) ==
            /\ ReferenceCode(stock) # <<>>
            /\ toUpperCase(trim(ReferenceCode(stock))) = toUpperCase(trim(code))
    IN  FirstIndex(odooData, HasCode)

\* the least element of a set of turns, 0 for the empty set
FirstTurn(turns) ==
    IF turns = {} THEN 0 ELSE CHOOSE i \in turns : \A j \in turns : i <= j

\* lines 169-182 on row k of odooData, 0 for no row: both reads return a
\* row and the category code is not falsy; failed says that a read of this
\* turn has failed, which empties its result (lines 478-480)
RowHasDetails(odooData, tables, k, failed) ==
    /\ k # 0
    /\ ~failed
    /\ fetchProductsOdoo(tables, odooData[k].product_id[1]) # <<>>
    /\ fetchCategoryOdoo(tables, odooData[k].product_categ_id[1]) # <<>>
    /\ fetchCategoryOdoo(tables, odooData[k].product_categ_id[1])[1].code # <<>>

\* one turn of the loop of lines 159-190 ends in break
DetailsFound(odooData, tables, code, failed) ==
    RowHasDetails(odooData, tables, StockDetails(odooData, code), failed)

\* the turn of the loop of getProductDetailsOdoo that breaks, 0 when the
\* loop runs to its end; failedTurn is the turn whose read fails, 0 for none
BreakingTurn(odooData, productCodes, tables, failedTurn) ==
    FirstTurn({ i \in DOMAIN productCodes :
                  DetailsFound(odooData, tables, productCodes[i], i = failedTurn) })

\* lines 197-215: threw for no warehouse of the field system (index w = 0)
\* that carries the warehouse name of the row, else the details returned
ReturnedDetails(stockDetails, productCode, product, categoryCode, warehouses, w) ==
    IF w = 0 THEN [threw |-> TRUE, details |-> NoDetails]
    ELSE [ threw   |-> FALSE,
           details |->
             [ productCode  |-> trim(productCode),
               productName  |-> trim(product.name),
               averageCost  |-> product.avg_cost,
               categoryName |-> trim(product.categ_id[2]),
               categoryCode |-> toUpperCase(trim(categoryCode)),
               warehouseId  |-> warehouses[w].warehouse_id,
               quantity     |-> stockDetails.quantity ] ]

\* lines 197-200: the first warehouse whose full_code includes the
\* warehouse name of the row, both in lower case
WarehouseDetails(stockDetails, warehouses) ==
    LET HasName(w) == includes(toLowerCase(w.full_code),
                               toLowerCase(stockDetails.warehouse_id[2]))
    IN  FirstIndex(warehouses, HasName)

\* the details of the row and the code on which the loop has ended
DetailsOfRow(stockDetails, productCode, warehouses, tables) ==
    ReturnedDetails(stockDetails, productCode,
                    fetchProductsOdoo(tables, stockDetails.product_id[1])[1],
                    fetchCategoryOdoo(tables, stockDetails.product_categ_id[1])[1].code,
                    warehouses, WarehouseDetails(stockDetails, warehouses))

\* lines 193-215 after the loop has ended on turn t
DetailsAtTurn(odooData, productCodes, warehouses, tables, t) ==
    IF t = 0 THEN [threw |-> TRUE, details |-> NoDetails]
    ELSE DetailsOfRow(odooData[StockDetails(odooData, productCodes[t])], productCodes[t],
                      warehouses, tables)

\* getProductDetailsOdoo: threw for no valid product (lines 193-195) or no
\* matching warehouse (lines 202-204), else the details of the first valid code
getProductDetailsOdoo(odooData, productCodes, warehouses, tables, failedTurn) ==
    DetailsAtTurn(odooData, productCodes, warehouses, tables,
                  BreakingTurn(odooData, productCodes, tables, failedTurn))

\* the folder that createOrGetFolder finds (lines 227-229), 0 for none
ExistingFolder(details, foldersInfraspeak) ==
    LET IsFolder(f) == ~f.is_real /\ f.code = details.categoryCode
    IN  FirstIndex(foldersInfraspeak, IsFolder)

\* the POST requests: createFolderPayload, createMaterialPayload and
\* createStockMovementPayload with the fields that tell them apart
createFolderPayload(details) ==
    [ type |-> "FOLDER", code |-> details.categoryCode, parent_id |-> NoId,
      action |-> "none", material_id |-> NoId, quantity |-> 0,
      warehouse_id |-> details.warehouseId ]

createMaterialPayload(details, folder) ==
    [ type |-> "MATERIAL", code |-> details.productCode, parent_id |-> folder,
      action |-> "none", material_id |-> NoId, quantity |-> 0,
      warehouse_id |-> details.warehouseId ]

createStockMovementPayload(materialId, quantity, warehouseId) ==
    [ type |-> "stock-movement", code |-> <<>>, parent_id |-> NoId,
      action |-> "ADD", material_id |-> materialId, quantity |-> quantity,
      warehouse_id |-> warehouseId ]

\* data.id of the response to a POST: the id the field system gives to what
\* it has created, above the ids of the entries it had
AssignedId(posts) == 60 + Len(posts)

\* a stock.quant row as fetchStockOdoo of the handler asks for it
QuantRow(productId, displayName, categoryId, warehouseName, quantity) ==
    [ product_id |-> <<productId, displayName>>,
      product_categ_id |-> <<categoryId, <<"a", "b">>>>,
      warehouse_id |-> <<1, warehouseName>>, quantity |-> quantity ]

\* display names of the two rows: codes that need trimming and upper-casing,
\* the same code twice, and a name without a code
FirstRowNames == { <<"[", " ", "a", "]">>, <<"[", "b", "]">>, <<"x">> }

SecondRowNames == { <<"[", "a", "]">>, <<"x", " ", "[", "B", " ", "]">> }

\* category codes of the second category: one to upper-case, and the false
\* that the ledger returns for an empty field
SecondCategoryCodes == { <<"b">>, <<>> }

\* what the ledger may hold: no stock, or two rows of two products in two
\* categories; the first product may be missing from product.product
CreatorLedgers ==
    { [ stock      |-> << QuantRow(31, n1, 5, <<"w", "h">>, 2),
                          QuantRow(32, n2, 6, <<"W", "H">>, 1) >>,
        products   |-> (IF has1 THEN << [ id |-> 31, name |-> <<"a", " ">>, avg_cost |-> 3,
                                        categ_id |-> <<5, <<"a", "b">>>> ] >>
                               ELSE <<>>)
                       \o << [ id |-> 32, name |-> <<"b">>, avg_cost |-> 4,
                               categ_id |-> <<6, <<"a", "b">>>> ] >>,
        categories |-> << [id |-> 5, code |-> <<" ", "w">>], [id |-> 6, code |-> c2] >> ]
      : n1 \in FirstRowNames, n2 \in SecondRowNames, has1 \in BOOLEAN,
        c2 \in SecondCategoryCodes }
    \cup { [stock |-> <<>>, products |-> <<>>, categories |-> <<>>] }

FieldEntry(id, isReal, code) == [id |-> id, is_real |-> isReal, code |-> code]

\* materials/all of the field system: no material or one, real or not,
\* whose code equals a ledger code after normalisation or as it stands,
\* followed by no folder or one entry that carries a category code
FieldCatalogues ==
    { m \o f :
        m \in { <<>>, << FieldEntry(41, TRUE, <<"a", " ">>) >>,
                << FieldEntry(41, TRUE, <<"B">>) >>,
                << FieldEntry(41, FALSE, <<"A">>) >> },
        f \in { <<>>, << FieldEntry(50, FALSE, <<"W">>) >>,
                << FieldEntry(50, FALSE, <<"w">>) >>,
                << FieldEntry(50, TRUE, <<"W">>) >>,
                << FieldEntry(50, FALSE, <<"B">>) >> } }

\* handler is invoked: a fresh invocation
CreateHandler ==
    /\ UNCHANGED << requestVars, accountMove, failures, webhookVars, syncVars,
                    suspendedVars >>
    /\ createPc = "idle"
    /\ createPc' = "fetch"
    /\ ledgerTables' = NoTables
    /\ createStock' = <<>>
    /\ productsInfraspeak' = <<>>
    /\ warehousesInfraspeak' = <<>>
    /\ unmatchedProductCodes' = <<>>
    /\ productDetails' = NoDetails
    /\ folderId' = NoId
    /\ createdMaterial' = NoId
    /\ fieldPosts' = <<>>
    /\ createResponse' = "none"

\* lines 47-51: the three reads of Promise.all succeed
CreateFetch ==
    /\ UNCHANGED << requestVars, accountMove, failures, webhookVars, syncVars,
                    suspendedVars >>
    /\ createPc = "fetch"
    /\ \E l \in CreatorLedgers, c \in FieldCatalogues :
          /\ ledgerTables' = [products |-> l.products, categories |-> l.categories]
          /\ createStock' = l.stock
          /\ productsInfraspeak' = c
    /\ warehousesInfraspeak' = WarehouseInfraspeak
    /\ createPc' = "match"
    /\ UNCHANGED << unmatchedProductCodes, productDetails, folderId, createdMaterial,
                    fieldPosts, createResponse >>

\* lines 47-51 with one read failing: fetchRequestOdoo swallows the error of
\* the stock read, which then returns no rows (lines 469-480, 506-508);
\* fetchWarehousesInfraspeak returns [] (lines 323-326); fetchProductsInfraspeak
\* rethrows (lines 345-348) and the handler answers 500
CreateFetchFails ==
    /\ UNCHANGED << requestVars, accountMove, webhookVars, syncVars, suspendedVars >>
    /\ createPc = "fetch"
    /\ CallFails
    /\ \E l \in CreatorLedgers, c \in FieldCatalogues,
          read \in { "stock", "products", "warehouses" } :
          /\ ledgerTables' = [products |-> l.products, categories |-> l.categories]
          /\ createStock' = IF read = "stock" THEN <<>> ELSE l.stock
          /\ productsInfraspeak' = IF read = "products" THEN <<>> ELSE c
          /\ warehousesInfraspeak' = IF read = "warehouses" THEN <<>> ELSE WarehouseInfraspeak
          /\ createPc' = IF read = "products" THEN "catch" ELSE "match"
    /\ UNCHANGED << unmatchedProductCodes, productDetails, folderId, createdMaterial,
                    fieldPosts, createResponse >>

\* lines 54-59: the unmatched codes; none ends the invocation with 200
MatchProducts ==
    /\ UNCHANGED << requestVars, accountMove, failures, webhookVars, syncVars,
                    suspendedVars >>
    /\ createPc = "match"
    /\ unmatchedProductCodes' = matchProductsBetweenPlatforms(createStock, productsInfraspeak)
    /\ IF unmatchedProductCodes' = <<>>
       THEN createPc' = "idle" /\ createResponse' = "200"
       ELSE createPc' = "details" /\ UNCHANGED createResponse
    /\ UNCHANGED << ledgerTables, createStock, productsInfraspeak, warehousesInfraspeak,
                    productDetails, folderId, createdMaterial, fieldPosts >>

\* line 62 on the return of getProductDetailsOdoo: its throw reaches the
\* catch block, its details go on to createOrGetFolder
DetailsReturn(r) ==
    /\ productDetails' = r.details
    /\ createPc' = IF r.threw THEN "catch" ELSE "folder"

\* line 62: getProductDetailsOdoo with every read succeeding
GetProductDetails ==
    /\ UNCHANGED << requestVars, accountMove, failures, webhookVars, syncVars,
                    suspendedVars >>
    /\ createPc = "details"
    /\ DetailsReturn(getProductDetailsOdoo(createStock, unmatchedProductCodes,
                                           warehousesInfraspeak, ledgerTables, 0))
    /\ UNCHANGED << ledgerTables, createStock, productsInfraspeak, warehousesInfraspeak,
                    unmatchedProductCodes, folderId, createdMaterial, fieldPosts,
                    createResponse >>

\* line 62 with a read of one turn of the loop failing: a turn that the
\* loop reaches and that has a row to read the details of
GetProductDetailsReadFails ==
    /\ UNCHANGED << requestVars, accountMove, webhookVars, syncVars, suspendedVars >>
    /\ createPc = "details"
    /\ CallFails
    /\ \E t \in DOMAIN unmatchedProductCodes :
          /\ StockDetails(createStock, unmatchedProductCodes[t]) # 0
          /\ BreakingTurn(createStock, unmatchedProductCodes, ledgerTables, 0) \in {0} \cup (t..Len(unmatchedProductCodes))
          /\ DetailsReturn(getProductDetailsOdoo(createStock, unmatchedProductCodes,
                                                 warehousesInfraspeak, ledgerTables, t))
    /\ UNCHANGED << ledgerTables, createStock, productsInfraspeak, warehousesInfraspeak,
                    unmatchedProductCodes, folderId, createdMaterial, fieldPosts,
                    createResponse >>

\* line 65: createOrGetFolder returns the id of the folder it finds, or
\* creates the folder and returns the id the field system gives it
CreateOrGetFolder ==
    /\ UNCHANGED << requestVars, accountMove, failures, webhookVars, syncVars,
                    suspendedVars >>
    /\ createPc = "folder"
    /\ LET k == ExistingFolder(productDetails, productsInfraspeak)
       IN  IF k # 0
           THEN /\ folderId' = productsInfraspeak[k].id
                /\ UNCHANGED fieldPosts
           ELSE /\ fieldPosts' = Append(fieldPosts, createFolderPayload(productDetails))
                /\ folderId' = AssignedId(fieldPosts')
    /\ createPc' = "material"
    /\ UNCHANGED << ledgerTables, createStock, productsInfraspeak, warehousesInfraspeak,
                    unmatchedProductCodes, productDetails, createdMaterial, createResponse >>

\* line 68: createMaterial
CreateMaterial ==
    /\ UNCHANGED << requestVars, accountMove, failures, webhookVars, syncVars,
                    suspendedVars >>
    /\ createPc = "material"
    /\ fieldPosts' = Append(fieldPosts, createMaterialPayload(productDetails, folderId))
    /\ createdMaterial' = AssignedId(fieldPosts')
    /\ createPc' = "movement"
    /\ UNCHANGED << ledgerTables, createStock, productsInfraspeak, warehousesInfraspeak,
                    unmatchedProductCodes, productDetails, folderId, createResponse >>

\* lines 71-73: createStockMovement, then the answer 200
CreateStockMovement ==
    /\ UNCHANGED << requestVars, accountMove, failures, webhookVars, syncVars,
                    suspendedVars >>
    /\ createPc = "movement"
    /\ fieldPosts' = Append(fieldPosts,
                            createStockMovementPayload(createdMaterial, productDetails.quantity,
                                                       productDetails.warehouseId))
    /\ createResponse' = "200"
    /\ createPc' = "idle"
    /\ UNCHANGED << ledgerTables, createStock, productsInfraspeak, warehousesInfraspeak,
                    unmatchedProductCodes, productDetails, folderId, createdMaterial >>

\* a POST to the field system fails: fetchRequestInfraspeak rethrows (lines
\* 370-373) and nothing is created by the request
CreatePostFails ==
    /\ UNCHANGED << requestVars, accountMove, webhookVars, syncVars, suspendedVars >>
    /\ \/ createPc = "folder" /\ ExistingFolder(productDetails, productsInfraspeak) = 0
       \/ createPc \in { "material", "movement" }
    /\ CallFails
    /\ createPc' = "catch"
    /\ UNCHANGED << ledgerTables, createStock, productsInfraspeak, warehousesInfraspeak,
                    unmatchedProductCodes, productDetails, folderId, createdMaterial,
                    fieldPosts, createResponse >>

\* lines 75-78: the catch block answers 500
CreateCatch ==
    /\ UNCHANGED << requestVars, accountMove, failures, webhookVars, syncVars,
                    suspendedVars >>
    /\ createPc = "catch"
    /\ createResponse' = "500"
    /\ createPc' = "idle"
    /\ UNCHANGED << ledgerTables, createStock, productsInfraspeak, warehousesInfraspeak,
                    unmatchedProductCodes, productDetails, folderId, createdMaterial,
                    fieldPosts >>

NextCreate ==
    \/ CreateHandler
    \/ CreateFetch
    \/ CreateFetchFails
    \/ MatchProducts
    \/ GetProductDetails
    \/ GetProductDetailsReadFails
    \/ CreateOrGetFolder
    \/ CreateMaterial
    \/ CreateStockMovement
    \/ CreatePostFails
    \/ CreateCatch

SpecCreate == Init /\ [][NextCreate]_vars

----------------------------------------------------------------------------
(* Properties *)

PayloadIds == { payloadRequest[j].request_id : j \in DOMAIN payloadRequest }

\* indices of the classified items of a request
ItemsOf(results, requestId) == { k \in DOMAIN results : results[k].request_id = requestId }

\* checkAndUpsertRequests has returned in this invocation: existingItems is
\* the scan it took, checkedWithDynamo the list it built
ReconcileCompleted ==
    \/ pc \notin { "idle", "getInfraspeakRequests", "checkAndUpsert", "catch" }
    \/ pc = "idle" /\ response = "200"
    \/ pc \in { "idle", "catch" } /\ thrownAt \notin { "none", "getInfraspeakRequests", "checkAndUpsert" }

\* the invocation has ended
InvocationEnded == pc = "idle" /\ response # "none"

\* journal entries of the order of a request, by kind of posting
JournalsOf(requestId, kind) ==
    { k \in DOMAIN accountMove :
        accountMove[k].x_work_order_id = RelatedTo(requestId) /\ accountMove[k].ref = kind }

\* COMPLETED postings of a request that no reversal posting has compensated
UnreversedPostings(requestId) ==
    Cardinality(JournalsOf(requestId, "COMPLETED")) - Cardinality(JournalsOf(requestId, "REVERSED"))

\* C1: while every remote and store call succeeds, no request has more than
\* one COMPLETED posting in the ledger that is not compensated by a reversal
C1_ExactlyOncePosting ==
    failures = 0 => \A r \in RequestIds : UnreversedPostings(r) <= 1

\* C2: on every store on which an invocation can start and for every batch,
\* a second run of checkAndUpsertRequests on the same batch returns no
\* classified item and issues no store write
C2_ReconcileIdempotent ==
    pc = "idle" =>
        \A b \in Batches :
            LET first  == Reconcile(store, b)
                second == Reconcile(first.store, b)
            IN  /\ second.results = <<>>
                /\ second.writes = <<>>
                /\ second.store = first.store

\* a run on a repeated batch has returned null, on a store on which another
\* batch gets an update and a retraction classified
C2_Witness ==
    /\ pc = "idle" /\ response = "200"
    /\ checkedWithDynamo = <<>>
    /\ payloadRequest # <<>>
    /\ \E b \in Batches :
        LET first == Reconcile(store, b)
        IN  /\ \E k \in DOMAIN first.results : first.results[k].upserted = "UPDATED"
            /\ \E k \in DOMAIN first.results : first.results[k].state = "REVERSED"

\* C3: when an invocation has ended, every item it classified and did not
\* post is classified again by a poll that carries the same batch
C3_RetryByNextPoll ==
    InvocationEnded =>
        \A k \in DOMAIN checkedWithDynamo :
            (k # 1 \/ response # "200") =>
                ItemsOf(Reconcile(store, payloadRequest).results,
                        checkedWithDynamo[k].request_id) # {}

\* a reversal posting has created its journal entry in this invocation
ReversalJournalCreated ==
    /\ checkedWithDynamo # <<>>
    /\ item.state = "REVERSED"
    /\ responseAccounting # NoId

\* C4: the journal entry created by a reversal has one (debit, credit) pair
\* and its total equals the total of the journal entry that the persisted
\* account_move_id referred to
C4_ReversalRoundTrip ==
    ReversalJournalCreated =>
        /\ Len(accountMove[responseAccounting].line_ids) = 2
        /\ AmountTotal(accountMove[responseAccounting])
              = AmountTotal(accountMove[resultIds.account_move_id])

\* the reversal of a COMPLETED posting of two material lines
C4_Witness ==
    /\ ReversalJournalCreated
    /\ accountMove[resultIds.account_move_id].ref = "COMPLETED"
    /\ Len(accountMove[resultIds.account_move_id].line_ids) = 4
    /\ AmountTotal(accountMove[responseAccounting]) = 4 * 1 + 5 * 2

\* C5: in a run of checkAndUpsertRequests that returns, every scanned record
\* absent from the batch with reversed = false gets reversed = true and
\* exactly one item, of state REVERSED; a scanned record absent from the
\* batch with reversed = true gets no item
C5_RetractionClassifiedOnce ==
    ReconcileCompleted =>
        \A i \in DOMAIN existingItems :
            LET e == existingItems[i]
                items == ItemsOf(checkedWithDynamo, e.request_id)
            IN  e.request_id \notin PayloadIds =>
                    /\ store[e.request_id].reversed
                    /\ IF e.reversed
                       THEN items = {}
                       ELSE /\ Cardinality(items) = 1
                            /\ \A k \in items : checkedWithDynamo[k].state = "REVERSED"

\* one run in which a record is retracted and another one stays retracted
C5_Witness ==
    /\ ReconcileCompleted
    /\ \E i, j \in DOMAIN existingItems :
        /\ existingItems[i].request_id \notin PayloadIds
        /\ existingItems[j].request_id \notin PayloadIds
        /\ ~existingItems[i].reversed
        /\ existingItems[j].reversed
        /\ ItemsOf(checkedWithDynamo, existingItems[i].request_id) # {}

\* C6: in a run of checkAndUpsertRequests that returns, a request without
\* scanned record is inserted (COMPLETED, reversed = false) with one item
\* INSERTED, COMPLETED, with empty stock_move_ids; a request whose scanned
\* record has another date_updated is updated with one item UPDATED that
\* carries the scanned stock_move_ids; a request whose scanned record has
\* the same date_updated gets no item and keeps its date_updated
C6_Classification ==
    ReconcileCompleted =>
        \A j \in DOMAIN payloadRequest :
            LET q == payloadRequest[j]
                k == FindExisting(existingItems, q.request_id)
                items == ItemsOf(checkedWithDynamo, q.request_id)
                rec == store[q.request_id]
            IN  IF k = 0
                THEN /\ rec.state = "COMPLETED" /\ ~rec.reversed
                     /\ rec.date_updated = q.date_updated
                     /\ Cardinality(items) = 1
                     /\ \A n \in items :
                          /\ checkedWithDynamo[n].upserted = "INSERTED"
                          /\ checkedWithDynamo[n].state = "COMPLETED"
                          /\ checkedWithDynamo[n].stock_move_ids = <<>>
                ELSE IF existingItems[k].date_updated # q.date_updated
                THEN /\ rec.date_updated = q.date_updated
                     /\ Cardinality(items) = 1
                     /\ \A n \in items :
                          /\ checkedWithDynamo[n].upserted = "UPDATED"
                          /\ checkedWithDynamo[n].state = "COMPLETED"
                          /\ checkedWithDynamo[n].stock_move_ids = existingItems[k].stock_move_ids
                ELSE /\ items = {}
                     /\ rec.date_updated = existingItems[k].date_updated

\* an update of a posted record, whose stock_move_ids differ from the
\* incoming ones, next to an insert, right after the run
C6_Witness ==
    /\ pc = "fetchReference"
    /\ \E j \in DOMAIN payloadRequest :
         LET k == FindExisting(existingItems, payloadRequest[j].request_id)
         IN  /\ k # 0
             /\ existingItems[k].date_updated # payloadRequest[j].date_updated
             /\ existingItems[k].stock_move_ids # <<>>
             /\ existingItems[k].stock_move_ids # payloadRequest[j].stock_move_ids
    /\ \E j \in DOMAIN payloadRequest :
         FindExisting(existingItems, payloadRequest[j].request_id) = 0

\* the batch without the request of id requestId
Without(payload, requestId) ==
    LET Other(q) == q.request_id # requestId
    IN  SelectSeq(payload, Other)

\* C7: in a run of checkAndUpsertRequests that returns, every request of the
\* batch whose scanned record has reversed = true ends with reversed = false,
\* and a run on a batch without it then classifies it REVERSED
C7_ReinstatementClearsFlag ==
    ReconcileCompleted =>
        \A j \in DOMAIN payloadRequest :
            LET q == payloadRequest[j]
                k == FindExisting(existingItems, q.request_id)
                later == Reconcile(store, Without(payloadRequest, q.request_id))
            IN  (k # 0 /\ existingItems[k].reversed) =>
                    /\ ~store[q.request_id].reversed
                    /\ \E n \in ItemsOf(later.results, q.request_id) :
                          later.results[n].state = "REVERSED"
                    /\ later.store[q.request_id].reversed

\* a retracted record comes back with the date_updated it had
C7_Witness ==
    /\ ReconcileCompleted
    /\ \E j \in DOMAIN payloadRequest :
         LET k == FindExisting(existingItems, payloadRequest[j].request_id)
         IN  /\ k # 0
             /\ existingItems[k].reversed
             /\ existingItems[k].date_updated = payloadRequest[j].date_updated

\* C8: when postToOdoo has failed on a ledger create call (a stock.move
\* create or the account.move create), no stock move and no journal entry
\* of that posting exists in the ledger
C8_NoPartialCommit ==
    thrownAt = "postToOdoo" =>
        /\ \A i \in DOMAIN responseInventory : responseInventory[i] = NoId
        /\ responseAccounting = NoId

\* a ledger create call of the item has been issued
CreateIssued ==
    /\ checkedWithDynamo # <<>>
    /\ responseInventory # <<>>

\* C9: when handler returns 200 for a posted item, the store record holds
\* the ids of the stock moves and of the journal entry just created, none of
\* them null; and from the first ledger create call of a COMPLETED item on,
\* the record holds the resolved cost_center_odoo
C9_WriteBack ==
    /\ (InvocationEnded /\ response = "200" /\ checkedWithDynamo # <<>>) =>
          /\ store[item.request_id].stock_move_ids = responseInventory
          /\ store[item.request_id].account_move_id = responseAccounting
          /\ responseAccounting # NoId
          /\ \A i \in DOMAIN responseInventory : responseInventory[i] # NoId
    /\ (CreateIssued /\ item.state = "COMPLETED") =>
          /\ processedWorkOrder.costCenter # NoId
          /\ store[item.request_id].cost_center_odoo = processedWorkOrder.costCenter

\* stock records whose bracketed reference code equals the material code,
\* both trimmed and upper-cased
MatchedRecords(line) ==
    { i \in DOMAIN odooStock :
        /\ BracketMatch(odooStock[i].product_id[2]).hit
        /\ toUpperCase(trim(BracketMatch(odooStock[i].product_id[2]).group))
              = toUpperCase(trim(line.materialCode)) }

\* some material line has no stock record, or asks for more than the on-hand
\* quantity of the stock record matched to it (the first one)
GuardTrips ==
    \E n \in DOMAIN processedWorkOrder.material :
        LET line == processedWorkOrder.material[n]
            hits == MatchedRecords(line)
        IN  \/ hits = {}
            \/ odooStock[CHOOSE i \in hits : \A j \in hits : i <= j].quantity < line.quantity

\* the material list of a COMPLETED item has been handed to prepareInventoryPosting
Translated ==
    /\ checkedWithDynamo # <<>>
    /\ item.state = "COMPLETED"
    /\ processedWorkOrder # NoWorkOrder
    /\ pc # "prepareInventoryPosting"

\* C10: when the guard trips, prepareInventoryPosting throws, and the
\* invocation issues no stock.move create, no account.move create and no
\* action_post, and does not return 200
C10_NegativeStockGuard ==
    (Translated /\ GuardTrips) =>
        /\ thrownAt = "prepareInventoryPosting"
        /\ pc \in { "catch", "idle" }
        /\ responseInventory = <<>>
        /\ inFlight = {}
        /\ responseAccounting = NoId
        /\ response # "200"

\* a line of quantity 2 against an on-hand quantity of 1
C10_Witness ==
    /\ Translated
    /\ pc = "catch"
    /\ \E n \in DOMAIN processedWorkOrder.material :
         LET line == processedWorkOrder.material[n]
             hits == MatchedRecords(line)
         IN  /\ hits # {}
             /\ \E i \in hits : odooStock[i].quantity = 1 /\ line.quantity = 2

\* processWorkOrder has been called for the COMPLETED item of this invocation
ProcessWorkOrderCalled ==
    /\ checkedWithDynamo # <<>>
    /\ item.state = "COMPLETED"
    /\ pc \notin { "fetchReference", "getInfraspeakData", "processWorkOrder" }
    /\ thrownAt \notin { "fetchReference", "getInfraspeakData" }

\* processWorkOrder has returned its material list
ProcessWorkOrderReturned ==
    /\ ProcessWorkOrderCalled
    /\ processedWorkOrder # NoWorkOrder

\* the stock record the odooStock.find of prepareInventoryPosting returns
\* for a material line, 0 when there is none
MatchedRecord(line) ==
    LET hits == MatchedRecords(line)
    IN  IF hits = {} THEN 0 ELSE CHOOSE i \in hits : \A j \in hits : i <= j

\* sum of the quantities of the postings matched to stock record i
PostedQuantity(i) ==
    SumSeq([n \in DOMAIN inventoryData |->
               IF MatchedRecord(processedWorkOrder.material[n]) = i
               THEN inventoryData[n].quantity ELSE 0])

\* C11: for every order that passes prepareInventoryPosting and every stock
\* record of the snapshot, the quantities of the postings matched to that
\* record sum to a value between 0 and the on-hand quantity of the record
C11_PostingsWithinOnHand ==
    (ProcessWorkOrderReturned /\ inventoryData # <<>>) =>
        \A i \in DOMAIN odooStock :
            /\ PostedQuantity(i) >= 0
            /\ PostedQuantity(i) <= odooStock[i].quantity

\* material ids of the material entries of an order detail
MaterialIdsOf(included) ==
    { included[i].material_id : i \in { j \in DOMAIN included : included[j].type = "material" } } \ {NoId}

\* the stock entries of a material, in the order of the order detail
StockGroup(included, materialId) ==
    LET InGroup(e) == e.type = "stock" /\ e.material_id = materialId
    IN  SelectSeq(included, InGroup)

AllStockEntries(included) ==
    LET IsStock(e) == e.type = "stock"
    IN  SelectSeq(included, IsStock)

\* C12: the list returned by processWorkOrder has exactly one line per
\* material id of the order, whose quantity is the sum of the quantities of
\* the stock entries of that material and whose meanPrice is the price of
\* the first of them; the line quantities sum to the total of all stock
\* entries of the order
C12_AggregationByMaterial ==
    ProcessWorkOrderReturned =>
        LET lines == processedWorkOrder.material
            included == infraspeakData.included
        IN  /\ \A m \in MaterialIdsOf(included) :
                  Cardinality({ n \in DOMAIN lines : lines[n].materialId = m }) = 1
            /\ \A n \in DOMAIN lines :
                  LET group == StockGroup(included, lines[n].materialId)
                  IN  /\ lines[n].materialId \in MaterialIdsOf(included)
                      /\ lines[n].quantity = SumSeq([k \in DOMAIN group |-> group[k].quantity])
                      /\ group # <<>> => lines[n].meanPrice = group[1].mean_price
            /\ SumSeq([n \in DOMAIN lines |-> lines[n].quantity])
                  = SumSeq([k \in DOMAIN AllStockEntries(included) |->
                               AllStockEntries(included)[k].quantity])

\* two stock entries of quantities 3 and 5 and prices 5 and 6 give one line
\* of quantity 8 at price 5, next to the line of another material
C12_Witness ==
    /\ ProcessWorkOrderReturned
    /\ Len(processedWorkOrder.material) = 2
    /\ \E n \in DOMAIN processedWorkOrder.material :
         /\ processedWorkOrder.material[n].quantity = 8
         /\ processedWorkOrder.material[n].meanPrice = 5
         /\ Len(StockGroup(infraspeakData.included, processedWorkOrder.material[n].materialId)) = 2

\* a material entry that lacks its material id, its code or its full code
BadMaterial(e) ==
    /\ e.type = "material"
    /\ \/ e.material_id = NoId
       \/ e.code = <<>>
       \/ e.full_code = <<>>

\* C13: when some material entry of the order lacks a required field,
\* processWorkOrder throws and returns no material list
C13_BadMaterialAborts ==
    (ProcessWorkOrderCalled /\ \E i \in DOMAIN infraspeakData.included :
                                  BadMaterial(infraspeakData.included[i])) =>
        /\ thrownAt = "processWorkOrder"
        /\ processedWorkOrder = NoWorkOrder

\* codes of the ledger accounts
AccountCodes == { OdooAccounts[i].code : i \in DOMAIN OdooAccounts }

\* neither the id nor the name of the order resolves to the code of a ledger account
Unresolvable ==
    LET IdIs(c) == c.id = toString(infraspeakData.cost_center_id)
        NameIs(c) == c.name = infraspeakData.cost_center_name
        byId == { CostCenters[i].code : i \in { j \in DOMAIN CostCenters : IdIs(CostCenters[j]) } }
        byName == { CostCenters[i].code : i \in { j \in DOMAIN CostCenters : NameIs(CostCenters[j]) } }
    IN  (IF byId # {} THEN byId ELSE byName) \cap AccountCodes = {}

\* cost_center_odoo of the record of the item before this invocation
PriorCostCenter ==
    LET k == FindExisting(existingItems, item.request_id)
    IN  IF k = 0 THEN NoId ELSE existingItems[k].cost_center_odoo

\* C15: when the cost center of the order is unresolvable, processWorkOrder
\* throws, cost_center_odoo of the record is not written, no stock.move or
\* account.move create is issued and handler does not return 200; and no
\* journal entry of the ledger has a line without account id
C15_UnresolvableCostCenter ==
    /\ (ProcessWorkOrderCalled /\ Unresolvable) =>
          /\ thrownAt = "processWorkOrder"
          /\ store[item.request_id].cost_center_odoo = PriorCostCenter
          /\ responseInventory = <<>>
          /\ inFlight = {}
          /\ responseAccounting = NoId
          /\ response # "200"
    /\ \A k \in DOMAIN accountMove : \A n \in DOMAIN accountMove[k].line_ids :
          accountMove[k].line_ids[n].account_id # NoId

\* handler has returned 500 for an order whose cost-center code has no
\* ledger account, and for one whose id and name are both unknown
C15_Witness ==
    /\ ProcessWorkOrderCalled /\ Unresolvable
    /\ pc = "idle" /\ response = "500"
    /\ \/ infraspeakData.cost_center_id = 3
       \/ infraspeakData.cost_center_id = 4 /\ infraspeakData.cost_center_name = "east"

\* the invocation has ended after the journal entry of its item was created
\* and action_post did not post it: the call threw or was refused
ActionPostFailed ==
    /\ checkedWithDynamo # <<>>
    /\ InvocationEnded
    /\ responseAccounting # NoId
    /\ accountMove[responseAccounting].state = "draft"

\* C16: when action_post has failed after the creates, handler does not
\* return 200, the created stock moves and the draft journal entry are in the
\* ledger, and the record holds stock_move_ids and account_move_id
C16_FinalizeFailureSurfaced ==
    ActionPostFailed =>
        /\ response # "200"
        /\ \A i \in DOMAIN responseInventory :
              responseInventory[i] # NoId => responseInventory[i] \in DOMAIN stockMove
        /\ responseAccounting \in DOMAIN accountMove
        /\ store[item.request_id].stock_move_ids = responseInventory
        /\ store[item.request_id].account_move_id = responseAccounting

\* C17: an invocation of the poll handler, or of the work-order handler, in
\* which an error reached the catch block ends with the 500 response, also
\* when getUserDetails fails
C17_EnrichmentNeverMasks ==
    /\ (InvocationEnded /\ thrownAt # "none") => response = "500"
    /\ (webhookPc = "idle" /\ webhookThrownAt # "none") => webhookResponse = "500"

\* every stock.move create and the account.move create of the item returned
\* an id, and the journal entry has been posted
PostingsSucceeded ==
    /\ checkedWithDynamo # <<>>
    /\ responseInventory # <<>>
    /\ \A i \in DOMAIN responseInventory : responseInventory[i] \in DOMAIN stockMove
    /\ responseAccounting \in DOMAIN accountMove
    /\ accountMove[responseAccounting].state = "posted"

\* checkAndUpsertRequests returned null
NothingClassified == ReconcileCompleted /\ checkedWithDynamo = <<>>

\* C18: an invocation in which getUserDetails did not fail ends with 200
\* exactly when checkAndUpsertRequests classified nothing or the postings of
\* the item all succeeded, and with 500 otherwise; when nothing was
\* classified no ledger create was issued and the store is as
\* checkAndUpsertRequests left it
C18_ResponseCode ==
    (InvocationEnded /\ response # "rejected") =>
        /\ response \in { "200", "500" }
        /\ response = "200" <=> (NothingClassified \/ PostingsSucceeded)
        /\ response = "500" <=> thrownAt # "none"
        /\ NothingClassified =>
              /\ responseInventory = <<>>
              /\ responseAccounting = NoId
              /\ \A i \in DOMAIN existingItems :
                    store[existingItems[i].request_id].stock_move_ids = existingItems[i].stock_move_ids

\* C19: when handler returns 200 for an item, the record of the item holds
\* the ids of the stock moves and of the journal entry that were created
\* and, for a COMPLETED item, the resolved cost_center_odoo
C19_PersistenceFailureSurfaced ==
    (InvocationEnded /\ response = "200" /\ checkedWithDynamo # <<>>) =>
        /\ store[item.request_id].stock_move_ids = responseInventory
        /\ store[item.request_id].account_move_id = responseAccounting
        /\ item.state = "COMPLETED" =>
              store[item.request_id].cost_center_odoo = processedWorkOrder.costCenter

\* codes of the cost centers that have the id, and the name, of an order
CodesById(attributes) ==
    { CostCenters[i].code :
        i \in { j \in DOMAIN CostCenters : CostCenters[j].id = toString(attributes.cost_center_id) } }

CodesByName(attributes) ==
    { CostCenters[i].code :
        i \in { j \in DOMAIN CostCenters : CostCenters[j].name = attributes.cost_center_name } }

\* resolution by id first, by name only when the id gave no code
CodesIdFirst(attributes) ==
    IF CodesById(attributes) # {} THEN CodesById(attributes) ELSE CodesByName(attributes)

AccountsOf(codes) ==
    { OdooAccounts[i].id : i \in { j \in DOMAIN OdooAccounts : OdooAccounts[j].code \in codes } }

\* C14: the cost center that processWorkOrder returns is the ledger account
\* of the code found by id, and of the code found by name only when the id
\* gave no code, in the poll handler and in the work-order handler
C14_CostCenterResolutionOrder ==
    /\ ProcessWorkOrderReturned =>
          processedWorkOrder.costCenter \in AccountsOf(CodesIdFirst(infraspeakData))
    /\ webhookWorkOrder # NoLabour =>
          webhookWorkOrder.costCenter \in AccountsOf(CodesIdFirst(webhookOrder))

\* field quantity of the (material, warehouse) of a row, 0 when the field
\* system has no record of the pair
FieldQuantityOf(row) ==
    LET recs == { k \in DOMAIN warehouseQtyInfraspeak :
                    /\ warehouseQtyInfraspeak[k].material_id = row.MaterialId
                    /\ warehouseQtyInfraspeak[k].warehouse_id = row.WarehouseId }
    IN  IF recs = {} THEN 0
        ELSE warehouseQtyInfraspeak[CHOOSE k \in recs : \A j \in recs : k <= j].stock_quantity

\* rows of this run whose callback has returned
RowsDone == { i \in DOMAIN stockToPost : i \notin syncPending }

\* the callback of row i has posted the movement of that action and quantity
Posted(i, action, quantity) ==
    /\ postedResults[i] # NullResult
    /\ postedResults[i].stock_movement_id \in DOMAIN stockMovements
    /\ LET movement == stockMovements[postedResults[i].stock_movement_id]
       IN  /\ movement.action = action
           /\ movement.quantity = quantity
           /\ movement.material_id = stockToPost[i].MaterialId
           /\ movement.warehouse_id = stockToPost[i].WarehouseId

C21_DriftZeroCase ==
    /\ \A i \in RowsDone :
          stockToPost[i].AvailableQty = FieldQuantityOf(stockToPost[i]) =>
              postedResults[i] = NullResult
    /\ \A k \in DOMAIN stockMovements : stockMovements[k].quantity # 0

\* rows of this run whose callback issues a POST
NeedsMovement(i) == RowMovement(stockToPost[i], warehouseQtyInfraspeak) # NoMovement

\* rows of this run whose callback has returned the response of its POST
RowsPosted == { i \in RowsDone : postedResults[i] # NullResult }

ReversalBuilt ==
    /\ checkedWithDynamo # <<>>
    /\ item.state = "REVERSED"
    /\ pc \in { "processJournalReversal", "postToOdoo", "saveInventoryResponse", "updateJournal" }

\* the ledger stock moves of the order of the item whose id is persisted in
\* the record of the item, in ascending id order
ReversalSources ==
    SortedSeq({ k \in DOMAIN stockMove :
                  /\ stockMove[k].x_work_order_id = item.related_to_id
                  /\ k \in Range(resultIds.stock_move_ids) })

\* C23: for a REVERSED item the ids used are the persisted ones, the
\* reversal postings are, one for one, the ledger stock moves that carry the
\* work-order reference of the order and a persisted stock-move id, each
\* created reversal move has the product and quantity of its original, and
\* the journal reversal restates the total of the entry with the persisted
\* account-move id
C23_ReversalDoubleFilter ==
    ReversalBuilt =>
        /\ pc # "updateJournal" =>
              /\ resultIds.stock_move_ids = store[item.request_id].stock_move_ids
              /\ resultIds.account_move_id = store[item.request_id].account_move_id
        /\ Len(inventoryData) = Len(ReversalSources)
        /\ \A i \in DOMAIN inventoryData :
              /\ inventoryData[i].product_id = stockMove[ReversalSources[i]].product_id
              /\ inventoryData[i].quantity = stockMove[ReversalSources[i]].quantity
        /\ pc # "processJournalReversal" =>
              /\ \A i \in DOMAIN responseInventory :
                    responseInventory[i] # NoId =>
                        /\ responseInventory[i] \notin Range(resultIds.stock_move_ids)
                        /\ stockMove[responseInventory[i]].product_id =
                              stockMove[ReversalSources[i]].product_id
                        /\ stockMove[responseInventory[i]].quantity =
                              stockMove[ReversalSources[i]].quantity
              /\ resultIds.account_move_id \in DOMAIN accountMove
              /\ Len(processedWorkOrder.material) = 1
              /\ processedWorkOrder.material[1].meanPrice =
                    AmountTotal(accountMove[resultIds.account_move_id])

\* the reversal of an order of two materials has created its two stock moves
C23_Witness ==
    /\ ReversalBuilt
    /\ pc = "saveInventoryResponse"
    /\ Len(ReversalSources) = 2
    /\ \A i \in DOMAIN responseInventory : responseInventory[i] # NoId

C25_OneItemPerInvocation ==
    /\ [][ /\ Len(stockMove') > Len(stockMove) =>
                 stockMove'[Len(stockMove')].x_work_order_id = checkedWithDynamo[1].related_to_id
           /\ Len(accountMove') > Len(accountMove) =>
                 /\ responseAccounting = NoId
                 /\ responseAccounting' = Len(accountMove')
                 /\ accountMove'[Len(accountMove')].x_work_order_id =
                       checkedWithDynamo[1].related_to_id
           /\ (pc = "updateJournal" /\ pc' # pc) => pc' \in {"idle", "catch"}
           /\ (responseAccounting # NoId /\ responseAccounting' = NoId) =>
                 pc' = "getInfraspeakRequests" ]_requestVars
    /\ [](ReconcileCompleted =>
            \A i \in DOMAIN checkedWithDynamo :
               /\ checkedWithDynamo[i].request_id \in DOMAIN store
               /\ checkedWithDynamo[i].state = "REVERSED" =>
                     store[checkedWithDynamo[i].request_id].reversed
               /\ checkedWithDynamo[i].state = "COMPLETED" =>
                     \E j \in DOMAIN payloadRequest :
                        /\ payloadRequest[j].request_id = checkedWithDynamo[i].request_id
                        /\ store[checkedWithDynamo[i].request_id].date_updated =
                              payloadRequest[j].date_updated
                        /\ ~store[checkedWithDynamo[i].request_id].reversed)

\* an invocation that classified two new requests has returned 200 after
\* posting the first one; the second one is in the store, never posted
C25_Witness ==
    /\ pc = "idle" /\ response = "200"
    /\ Len(checkedWithDynamo) = 2
    /\ checkedWithDynamo[2].state = "COMPLETED"
    /\ Len(accountMove) = 1
    /\ accountMove[1].x_work_order_id = checkedWithDynamo[1].related_to_id
    /\ checkedWithDynamo[2].request_id \in DOMAIN store
    /\ store[checkedWithDynamo[2].request_id].account_move_id = NoId
    /\ store[checkedWithDynamo[1].request_id].account_move_id = 1

\* the creates of the item in hand that have returned an id
CreatesReturned ==
    IF checkedWithDynamo # <<>> /\ pc \in { "postToOdoo", "saveInventoryResponse", "updateJournal" }
    THEN { i \in DOMAIN responseInventory : responseInventory[i] # NoId }
    ELSE {}

\* C26: the stock move created for a COMPLETED posting goes from the
\* location of a stock record of its product to the scrap location; the
\* stock move created for the REVERSED posting built from such a move goes
\* from the scrap location back to the source location of that move, with
\* its product and quantity
C26_DirectionFlipsOnReversal ==
    \A i \in CreatesReturned :
       LET created == stockMove[responseInventory[i]]
       IN  /\ item.state = "COMPLETED" =>
                /\ created.location_dest_id = locationDestId
                /\ created.quantity = inventoryData[i].quantity
                /\ \E k \in DOMAIN odooStock :
                      /\ odooStock[k].product_id[1] = created.product_id
                      /\ odooStock[k].location_id[1] = created.location_id
           /\ (item.state = "REVERSED"
                 /\ stockMove[ReversalSources[i]].name = "Stock move") =>
                /\ created.location_id = locationDestId
                /\ created.location_dest_id = stockMove[ReversalSources[i]].location_id
                /\ created.location_id = stockMove[ReversalSources[i]].location_dest_id
                /\ created.product_id = stockMove[ReversalSources[i]].product_id
                /\ created.quantity = stockMove[ReversalSources[i]].quantity

\* a reversal has created the stock move that brings the quantity of a
\* COMPLETED move back from the scrap location to location 8
C26_Witness ==
    /\ checkedWithDynamo # <<>>
    /\ item.state = "REVERSED"
    /\ \E i \in CreatesReturned :
          /\ stockMove[ReversalSources[i]].name = "Stock move"
          /\ stockMove[ReversalSources[i]].location_id = 8
          /\ stockMove[responseInventory[i]].location_dest_id = 8
          /\ stockMove[responseInventory[i]].location_id = locationDestId

\* the journal entry of the item in hand has been created
JournalCreated ==
    /\ checkedWithDynamo # <<>>
    /\ responseAccounting # NoId
    /\ pc \in { "saveInventoryResponse", "updateJournal" }

\* the (debit, credit) pair of one amount
DebitCreditPair(debitAccount, creditAccount, amount) ==
    << [account_id |-> debitAccount, debit |-> amount, credit |-> 0],
       [account_id |-> creditAccount, debit |-> 0, credit |-> amount] >>

\* C27: a COMPLETED journal entry has, for each material line in order, one
\* pair of amount meanPrice * quantity that debits the inventories account
\* and credits the cost-center account of the order; a REVERSED entry has
\* exactly one pair of the total of the original entry, which debits the
\* account the original entry credited and credits the inventories account
C27_JournalAmountsAndRoles ==
    JournalCreated =>
       LET entry == accountMove[responseAccounting]
       IN  /\ item.state = "COMPLETED" =>
                entry.line_ids =
                   Flatten([j \in DOMAIN processedWorkOrder.material |->
                       DebitCreditPair(accountIdInventories,
                           getOdooCostCenterId(ResolveCostCenterCode(infraspeakData, CostCenters),
                                               OdooAccounts),
                           processedWorkOrder.material[j].meanPrice
                              * processedWorkOrder.material[j].quantity)])
           /\ item.state = "REVERSED" =>
                LET original == accountMove[resultIds.account_move_id]
                IN  (original.ref = "COMPLETED" /\ original.line_ids # <<>>) =>
                       entry.line_ids =
                          DebitCreditPair(original.line_ids[2].account_id,
                                          accountIdInventories, AmountTotal(original))

\* the lines of a journal entry come in (debit, credit) pairs of one amount
Balanced(entry) ==
    LET lines == entry.line_ids
    IN  /\ Len(lines) % 2 = 0
        /\ \A j \in 1..(Len(lines) \div 2) :
              /\ lines[2 * j - 1].credit = 0
              /\ lines[2 * j].debit = 0
              /\ lines[2 * j - 1].debit = lines[2 * j].credit
        /\ SumSeq([i \in DOMAIN lines |-> lines[i].debit])
              = SumSeq([i \in DOMAIN lines |-> lines[i].credit])

\* C28: every journal entry of the ledger, created by the poll handler for
\* a COMPLETED or a REVERSED item or by the work-order handler for the
\* labour cost, is made of pairs whose debit equals the credit, so that its
\* total debit equals its total credit
C28_EveryEntryBalanced ==
    \A k \in DOMAIN accountMove : Balanced(accountMove[k])

\* the ledger holds a labour entry of the work-order handler and the entry
\* of a COMPLETED order of two materials
C28_Witness ==
    \E k, l \in DOMAIN accountMove :
       /\ accountMove[k].ref = "LABOUR"
       /\ Len(accountMove[k].line_ids) = 2
       /\ accountMove[l].ref = "COMPLETED"
       /\ Len(accountMove[l].line_ids) = 4

\* C29: in postToOdoo the account.move create is issued once every
\* stock.move create of the order has returned and no stock.move is created
\* after it; the write-back of the ids follows the return of the
\* account.move create and writes the returned ids; action_post follows the
\* write-back and acts on the entry that was created
C29_OrderOfLedgerCalls ==
    [][ /\ pc' = "saveInventoryResponse" =>
              /\ pc = "postToOdoo"
              /\ inFlight = {} /\ ~rejected
              /\ Len(accountMove') = Len(accountMove) + 1
              /\ accountMove'[Len(accountMove')].state = "draft"
              /\ responseAccounting' = Len(accountMove')
        /\ Len(stockMove') > Len(stockMove) =>
              /\ pc = "postToOdoo" /\ pc' = "postToOdoo"
              /\ responseAccounting = NoId
        /\ \A r \in DOMAIN store :
              (\/ store'[r].stock_move_ids # store[r].stock_move_ids
               \/ store'[r].account_move_id # store[r].account_move_id) =>
                  /\ pc = "saveInventoryResponse"
                  /\ r = checkedWithDynamo[1].request_id
                  /\ responseAccounting \in DOMAIN accountMove
                  /\ store'[r].account_move_id = responseAccounting
                  /\ store'[r].stock_move_ids = responseInventory
        /\ pc' = "updateJournal" => pc = "saveInventoryResponse"
        /\ \A k \in DOMAIN accountMove :
              (accountMove[k].state = "draft" /\ accountMove'[k].state = "posted") =>
                  /\ pc = "updateJournal"
                  /\ k = responseAccounting ]_requestVars

\* an order of two materials has gone through the whole sequence: two stock
\* moves, the journal entry, the write-back and action_post
C29_Witness ==
    /\ pc = "idle" /\ response = "200"
    /\ checkedWithDynamo # <<>>
    /\ item.state = "COMPLETED"
    /\ Len(responseInventory) = 2
    /\ \A i \in DOMAIN responseInventory : responseInventory[i] \in DOMAIN stockMove
    /\ responseAccounting \in DOMAIN accountMove
    /\ accountMove[responseAccounting].state = "posted"
    /\ store[item.request_id].account_move_id = responseAccounting
    /\ store[item.request_id].stock_move_ids = responseInventory

\* request ids of the items of a list that carry the given state
IdsInState(items, state) ==
    { items[i].request_id : i \in { n \in DOMAIN items : items[n].state = state } }

\* C30: when checkAndUpsertRequests returns, the scan it used is the store
\* as it was when the run started; its COMPLETED items are the requests of
\* the batch without record in that scan or with another date_updated in
\* it, its REVERSED items are the records of that scan that are absent from
\* the batch and not flagged, each listed once, and every COMPLETED item
\* precedes every REVERSED item
C30_ClassificationOrderAndSnapshot ==
    [][ (pc = "checkAndUpsert" /\ pc' \in {"idle", "fetchReference"}) =>
          LET scan == getAllRequestsFromDynamo(store)
              completed == { payloadRequest[j].request_id :
                               j \in { n \in DOMAIN payloadRequest :
                                  LET k == FindExisting(scan, payloadRequest[n].request_id)
                                  IN  \/ k = 0
                                      \/ scan[k].date_updated # payloadRequest[n].date_updated } }
              reversed  == { scan[k].request_id :
                               k \in { n \in DOMAIN scan :
                                  /\ scan[n].request_id \notin PayloadIds
                                  /\ ~scan[n].reversed } }
          IN  /\ existingItems' = scan
              /\ IdsInState(checkedWithDynamo', "COMPLETED") = completed
              /\ IdsInState(checkedWithDynamo', "REVERSED") = reversed
              /\ Len(checkedWithDynamo') = Cardinality(completed) + Cardinality(reversed)
              /\ \A i, j \in DOMAIN checkedWithDynamo' :
                    (/\ checkedWithDynamo'[i].state = "COMPLETED"
                     /\ checkedWithDynamo'[j].state = "REVERSED") => i < j ]_requestVars

\* a run has classified an update of request 1 and, after it, the
\* retraction of request 2, both decided on the scan: the store already
\* holds the new date of request 1 and the flag of request 2
C30_Witness ==
    /\ pc = "fetchReference"
    /\ Len(checkedWithDynamo) = 2
    /\ checkedWithDynamo[1].state = "COMPLETED" /\ checkedWithDynamo[1].upserted = "UPDATED"
    /\ checkedWithDynamo[2].state = "REVERSED"
    /\ \E k \in DOMAIN existingItems :
          /\ existingItems[k].request_id = checkedWithDynamo[2].request_id
          /\ ~existingItems[k].reversed
    /\ store[checkedWithDynamo[2].request_id].reversed

\* the two overlapping deliveries of the webhook are for the same order and
\* both have returned 200: each passed checkOrderInDynamo before the other
\* wrote posted_to_odoo
WebhookBothPosted ==
    /\ webhookOrder.order_id # NoId
    /\ webhookSuspended.webhookOrder.order_id = webhookOrder.order_id
    /\ webhookResponse = "200"
    /\ webhookSuspended.webhookResponse = "200"

\* the two overlapping polls have both classified the same request as
\* INSERTED and both have returned 200 after posting it: each took its scan
\* before the other inserted the record
PollBothPosted ==
    /\ checkedWithDynamo # <<>>
    /\ suspended.checkedWithDynamo # <<>>
    /\ item.upserted = "INSERTED"
    /\ suspended.checkedWithDynamo[1].upserted = "INSERTED"
    /\ suspended.checkedWithDynamo[1].request_id = item.request_id
    /\ response = "200" /\ responseAccounting # NoId
    /\ suspended.response = "200" /\ suspended.responseAccounting # NoId

\* the step in which addedToDynamo of the running delivery returns
AddedToDynamoStep ==
    /\ webhookPc = "addedToDynamo"
    /\ webhookPc' = "idle"
    /\ webhookResponse' = "200"
    /\ webhookSuspended' = webhookSuspended

\* the step in which saveInventoryResponseToDynamo of the running poll returns
SaveInventoryResponseStep ==
    /\ pc = "saveInventoryResponse"
    /\ pc' = "updateJournal"
    /\ suspended' = suspended

\* C31: nothing guards overlapping triggers of the same identifier.  When
\* two overlapping deliveries of one order, or two overlapping polls of one
\* new request, have both passed the check and returned 200, the ledger
\* holds one journal entry of each of them, and the store record holds the
\* ids of one of them only; every write-back replaces what the record held
\* by the ids of its writer, so the record ends with those of the last one
C31_ConcurrentTriggersUnguarded ==
    /\ [](WebhookBothPosted =>
            /\ webhookAccounting # webhookSuspended.webhookAccounting
            /\ {webhookAccounting, webhookSuspended.webhookAccounting} \subseteq DOMAIN accountMove
            /\ webhookStore[webhookOrder.order_id].posted_to_odoo
                 \in { toString(webhookAccounting),
                       toString(webhookSuspended.webhookAccounting) })
    /\ [](PollBothPosted =>
            /\ responseAccounting # suspended.responseAccounting
            /\ JournalsOf(item.request_id, "COMPLETED")
                 = {responseAccounting, suspended.responseAccounting}
            /\ \/ /\ store[item.request_id].account_move_id = responseAccounting
                  /\ store[item.request_id].stock_move_ids = responseInventory
               \/ /\ store[item.request_id].account_move_id = suspended.responseAccounting
                  /\ store[item.request_id].stock_move_ids = suspended.responseInventory)
    /\ [][AddedToDynamoStep =>
            webhookStore'[webhookOrder.order_id].posted_to_odoo
              = toString(webhookAccounting)]_vars
    /\ [][SaveInventoryResponseStep =>
            /\ store'[item.request_id].account_move_id = responseAccounting
            /\ store'[item.request_id].stock_move_ids = responseInventory]_vars

\* two overlapping deliveries of one order with a labour cost have both
\* returned 200, the ledger holds their two entries, and posted_to_odoo is
\* the id of the second entry alone
C31_Witness ==
    /\ WebhookBothPosted
    /\ webhookOrder.manpower_cost > 0
    /\ Len(accountMove) = 2
    /\ webhookStore[webhookOrder.order_id].posted_to_odoo = toString(2)

\* the run of the stock-sync handler has ended
SyncEnded == syncPc = "idle" /\ syncResponse # "none"

\* a page of the product read of this run failed before the last product
\* was read: the handler holds fewer products than the ledger has
ProductReadTruncated == productsOdoo # <<>> /\ productsOdoo # ProductsOdoo

\* C32: a run of the stock-sync handler in which a page of the product read
\* failed, so that the product list is incomplete, ends with 500 and has
\* posted no movement
C32_LedgerReadFailureFatal ==
    (SyncEnded /\ ProductReadTruncated) =>
        /\ syncResponse = "500"
        /\ \A i \in DOMAIN postedResults : postedResults[i] = NullResult

\* the batch of this invocation holds that request alone
OnlyInBatch(requestId) ==
    /\ Len(payloadRequest) = 1
    /\ payloadRequest[1].request_id = requestId

\* C33: when an invocation whose batch holds one request alone returns 200
\* and that request has been posted before, the ledger holds a COMPLETED
\* posting of the request that no reversal has compensated, whether or not
\* its date_updated has changed since it was retracted
C33_ReinstatedPostedAgain ==
    \A r \in RequestIds :
        (InvocationEnded /\ response = "200" /\ OnlyInBatch(r)
            /\ JournalsOf(r, "COMPLETED") # {}) =>
                UnreversedPostings(r) >= 1

\* the same with a date_updated that differs from the one of the record
\* found by the scan
C33_ReinstatedWithNewDate ==
    \A r \in RequestIds :
        (InvocationEnded /\ response = "200" /\ OnlyInBatch(r)
            /\ JournalsOf(r, "COMPLETED") # {}
            /\ \E k \in DOMAIN existingItems :
                  /\ existingItems[k].request_id = r
                  /\ existingItems[k].date_updated # payloadRequest[1].date_updated) =>
                UnreversedPostings(r) >= 1

\* the ids of the record have been read for the REVERSED item of this
\* invocation
ReversalIdsRead ==
    /\ checkedWithDynamo # <<>>
    /\ item.state = "REVERSED"
    /\ pc \in { "processStockReversal", "processJournalReversal", "postToOdoo",
                "saveInventoryResponse", "updateJournal" }

\* C34: the ids that a reversal reads from the record are those of moves
\* created by a COMPLETED posting, and no request has more reversal
\* postings than COMPLETED postings
C34_ReversalCompensatesCompleted ==
    /\ ReversalIdsRead =>
          /\ resultIds.account_move_id \in DOMAIN accountMove =>
                accountMove[resultIds.account_move_id].ref = "COMPLETED"
          /\ \A i \in DOMAIN resultIds.stock_move_ids :
                resultIds.stock_move_ids[i] \in DOMAIN stockMove =>
                    stockMove[resultIds.stock_move_ids[i]].name = "Stock move"
    /\ \A r \in RequestIds :
          Cardinality(JournalsOf(r, "REVERSED")) <= Cardinality(JournalsOf(r, "COMPLETED"))

\* rows of this run on the (material, warehouse) of a row
RowsOnPair(row) ==
    { i \in DOMAIN stockToPost :
        /\ stockToPost[i].MaterialId = row.MaterialId
        /\ stockToPost[i].WarehouseId = row.WarehouseId }

\* ledger quantity of the pair of a row: the sum over its stock rows
LedgerQuantityOf(row) ==
    LET rows == SortedSeq(RowsOnPair(row))
    IN  SumSeq([k \in DOMAIN rows |-> stockToPost[rows[k]].AvailableQty])

\* what the movement posted by the callback of row i adds to the field
\* quantity of its pair, 0 when the callback posted nothing
AppliedBy(i) ==
    IF postedResults[i] = NullResult THEN 0
    ELSE LET movement == stockMovements[postedResults[i].stock_movement_id]
         IN  IF movement.action = "ADD" THEN movement.quantity ELSE 0 - movement.quantity

\* field quantity of the pair of a row once the field system has applied
\* the movements of this run
FieldQuantityAfter(row) ==
    LET rows == SortedSeq(RowsOnPair(row))
    IN  FieldQuantityOf(row) + SumSeq([k \in DOMAIN rows |-> AppliedBy(rows[k])])

\* fetchWarehouseQuantitiesInfraspeak of a run that follows at once
FieldStockAfter ==
    [i \in DOMAIN stockToPost |->
        FieldRecord(stockToPost[i].MaterialId, stockToPost[i].WarehouseId,
                    FieldQuantityAfter(stockToPost[i]))]

\* the run has returned 200, no call has failed and every movement it had
\* to post was posted
DriftRunSucceeded ==
    /\ failures = 0
    /\ syncPc = "idle" /\ syncResponse = "200"
    /\ \A i \in DOMAIN stockToPost : NeedsMovement(i) => postedResults[i] # NullResult

\* C35: after a run in which every movement was posted and applied, the
\* field quantity of every mapped pair is the ledger quantity of the pair
\* and a run that follows at once posts no movement
C35_DriftConverges ==
    DriftRunSucceeded =>
        \A i \in DOMAIN stockToPost :
            /\ FieldQuantityAfter(stockToPost[i]) = LedgerQuantityOf(stockToPost[i])
            /\ RowMovement(stockToPost[i], FieldStockAfter) = NoMovement

\* the same for the pairs of one stock row with a positive ledger quantity
C35_SingleRowPairsConverge ==
    DriftRunSucceeded =>
        \A i \in DOMAIN stockToPost :
            (RowsOnPair(stockToPost[i]) = {i} /\ stockToPost[i].AvailableQty > 0) =>
                /\ FieldQuantityAfter(stockToPost[i]) = LedgerQuantityOf(stockToPost[i])
                /\ RowMovement(stockToPost[i], FieldStockAfter) = NoMovement

\* the same for every pair with positive ledger quantities on all its rows
C35_PositivePairsConverge ==
    DriftRunSucceeded =>
        \A i \in DOMAIN stockToPost :
            (\A j \in RowsOnPair(stockToPost[i]) : stockToPost[j].AvailableQty > 0) =>
                /\ FieldQuantityAfter(stockToPost[i]) = LedgerQuantityOf(stockToPost[i])
                /\ RowMovement(stockToPost[i], FieldStockAfter) = NoMovement

\* the delivery of the webhook has passed checkOrderInDynamo
WebhookPastCheck ==
    webhookPc \in { "processWorkOrder", "postOdooAccounting", "addedToDynamo" }

\* postToOdoo of the delivery has returned or thrown after its journal
\* entry was created
LabourEntryCreated ==
    /\ webhookPc \in { "idle", "catch" }
    /\ webhookAccounting # NoId

\* C36: under sequential deliveries, a delivery passes checkOrderInDynamo
\* only for an order without posted_to_odoo; a delivery stopped by that
\* check has created no journal entry and, when getUserDetails does not
\* fail, returns 500; and once a delivery has created a journal entry,
\* posted_to_odoo of its order holds the id of that entry
C36_LabourPostedAtMostOnce ==
    /\ WebhookPastCheck => webhookOrder.order_id \notin DOMAIN webhookStore
    /\ (webhookPc = "idle" /\ webhookThrownAt = "checkOrderInDynamo"
            /\ webhookOrder.order_id \in DOMAIN webhookStore) =>
          /\ webhookAccounting = NoId
          /\ webhookResponse \in { "500", "rejected" }
          /\ failures = 0 => webhookResponse = "500"
    /\ LabourEntryCreated =>
          /\ webhookOrder.order_id \in DOMAIN webhookStore
          /\ webhookStore[webhookOrder.order_id].posted_to_odoo = toString(webhookAccounting)

\* the same for the runs in which no call fails, with the count of the
\* entries: one journal entry for every order of the table
C36_AtMostOnceWithoutFailure ==
    failures = 0 =>
        /\ C36_LabourPostedAtMostOnce
        /\ webhookPc = "idle" => Len(accountMove) = Cardinality(DOMAIN webhookStore)

\* C37: checkAndUpsertRequests leaves the stock_move_ids, the
\* account_move_id and the cost_center_odoo of every record that existed
\* when it was called as they were, whatever writes it issues and also when
\* one of them fails
C37_ReconcileKeepsLedgerIds ==
    [][pc = "checkAndUpsert" =>
          \A r \in DOMAIN store :
              /\ r \in DOMAIN store'
              /\ store'[r].stock_move_ids = store[r].stock_move_ids
              /\ store'[r].account_move_id = store[r].account_move_id
              /\ store'[r].cost_center_odoo = store[r].cost_center_odoo]_requestVars

\* checkAndUpsertRequests has returned after an update, a mark or a reset
\* on a record that holds the ids of a posting
C37_Witness ==
    /\ ReconcileCompleted
    /\ pc = "fetchReference"
    /\ \E k \in DOMAIN existingItems :
          /\ existingItems[k].account_move_id # NoId
          /\ existingItems[k].stock_move_ids # <<>>
          /\ store[existingItems[k].request_id].account_move_id = existingItems[k].account_move_id
          /\ \/ store[existingItems[k].request_id].reversed # existingItems[k].reversed
             \/ store[existingItems[k].request_id].date_updated # existingItems[k].date_updated

\* the ledger product codes of the rows the invocation has read, trimmed
\* and upper-cased
LedgerCodes ==
    { toUpperCase(trim(BracketMatch(createStock[i].product_id[2]).group)) :
        i \in { j \in DOMAIN createStock : BracketMatch(createStock[j].product_id[2]).hit } }
    \ { <<>> }

\* the codes of the real entries of the field system, trimmed and upper-cased
RealFieldCodes ==
    { toUpperCase(trim(productsInfraspeak[i].code)) :
        i \in { j \in DOMAIN productsInfraspeak : productsInfraspeak[j].is_real } }

\* the kinds of the POST requests issued so far, in the order of issue
PostKinds == [i \in DOMAIN fieldPosts |-> fieldPosts[i].type]

IsPrefix(s, t) == Len(s) <= Len(t) /\ s = SubSeq(t, 1, Len(s))

\* the writes of one invocation: at most one material, of an unmatched
\* ledger code, after the folder when one is created and before the ADD
\* movement of that material
CreateWritesInOrder ==
    /\ Cardinality({ i \in DOMAIN fieldPosts : fieldPosts[i].type = "MATERIAL" }) <= 1
    /\ \/ IsPrefix(PostKinds, << "FOLDER", "MATERIAL", "stock-movement" >>)
       \/ IsPrefix(PostKinds, << "MATERIAL", "stock-movement" >>)
    /\ \A i \in DOMAIN fieldPosts :
          /\ fieldPosts[i].type = "MATERIAL" =>
                /\ fieldPosts[i].code \in LedgerCodes
                /\ fieldPosts[i].code \notin RealFieldCodes
          /\ fieldPosts[i].type = "FOLDER" =>
                ~ \E k \in DOMAIN productsInfraspeak :
                      /\ ~productsInfraspeak[k].is_real
                      /\ productsInfraspeak[k].code = fieldPosts[i].code
          /\ fieldPosts[i].type = "stock-movement" =>
                /\ fieldPosts[i].action = "ADD"
                /\ fieldPosts[i].material_id = createdMaterial

\* the matching step on data without an unmatched code ends the invocation
\* with 200, no write issued
NoUnmatchedEnds200 ==
    (createPc = "match" /\ LedgerCodes \subseteq RealFieldCodes)
        => (createPc' = "idle" /\ createResponse' = "200" /\ fieldPosts' = <<>>)

\* C38: one invocation of the product-creation handler creates at most one
\* material, of a ledger product code that no real material of the field
\* system carries after trimming and upper-casing; its writes come in the
\* order folder (only when no non-real entry carries the category code),
\* material, ADD stock movement; without an unmatched code it answers 200
\* and writes nothing
C38_ProductCreationPipeline ==
    /\ [] CreateWritesInOrder
    /\ [][NoUnmatchedEnds200]_createVars

\* an invocation has created a folder, a material of a code that a non-real
\* entry carries, and its stock movement, beside a real material of another code
C38_Witness ==
    /\ createPc = "idle"
    /\ createResponse = "200"
    /\ PostKinds = << "FOLDER", "MATERIAL", "stock-movement" >>
    /\ RealFieldCodes # {}
    /\ Cardinality(LedgerCodes) = 2

\* an invocation without an unmatched code has answered 200
C38_NothingToCreate ==
    /\ createPc = "idle"
    /\ createResponse = "200"
    /\ LedgerCodes # {}
    /\ LedgerCodes \subseteq RealFieldCodes

====
